---- MODULE Spec2Model ----
(***************************************************************************)
(* A model of the cooperative-directory scripts under ml-pipeline/scripts. *)
(*                                                                         *)
(* labeled_data.json is the variable labeled_file; each script run loads   *)
(* it, works on an in-memory copy and writes it back.  The review session  *)
(* of verify_candidates.py blocks at input(), so it is modelled as one     *)
(* action per prompt; the batch scripts run to completion in one action.   *)
(*                                                                         *)
(* Conventions                                                             *)
(*  - a Python str that the scripts take apart (names, URLs) is a          *)
(*    sequence of one-character strings; a str that is only copied or      *)
(*    compared (category, source, choice) is a TLA+ string;                *)
(*  - None is the value None below; a dict key whose value would be None   *)
(*    for a nested dict (similarity_scores) is modelled as an absent key,  *)
(*    which dict.get treats alike;                                         *)
(*  - scores are in tenths (0.4 is 4), so comparisons are exact;           *)
(*  - datetime.now().isoformat() is the constant string "now".             *)
(***************************************************************************)
EXTENDS Integers, Sequences, FiniteSets, TLC

VARIABLES
    labeled_file,       \* labeled_data.json on disk
    similarity_file,    \* similarity_results.json on disk
    sos_file,           \* sos_candidates.json on disk
    index_html,         \* index.html: the marker and the array's entries
    screenshots,        \* screenshots/: the ids N of the files N.png
    pc,                 \* "idle" | "prompt" (blocked in input()) | "exited"
    argv,               \* verify_candidates: the flags given
    args,               \* verify_candidates: parsed command line
    labeled_data,       \* verify_candidates: the loaded store, in memory
    candidates,         \* verify_candidates: the review queue
    num_to_review,      \* verify_candidates: min(args.num, len(candidates))
    i,                  \* verify_candidates: 1-based position in the queue
    verified_count,
    rejected_count,
    skipped_count,
    decision,           \* verify_candidates: the last value of `decision`
    shown,              \* console: candidates passed to display_candidate
    decisions,          \* console: per shown candidate, the closing decision
    opened,             \* URLs handed to webbrowser.open in this session
    runs,               \* number of script runs started so far
    issued_ids,         \* history: every id a verified record ever had on disk
    dc_candidate,       \* determine_category alone: its argument
    dc_result,          \* determine_category alone: its result, "" before
    self_embeddings,    \* similarity_search: one embedding per verified record
    self_cooperatives,  \* similarity_search: the verified records, same order
    sc_candidate,       \* similarity_search: the candidate being scored
    web_content,        \* similarity_search: what fetch_and_extract returns
    sc_result,          \* similarity_search: score_candidate's result, <<>> before
    nn_name,            \* normalize_name alone: its argument
    nn_url,             \* extract_domain alone: its argument
    nn_result,          \* both applied once and twice, <<>> before
    all_candidates,     \* fetch_candidates: the fetched lists, concatenated
    unique_candidates,  \* fetch_candidates: <<the deduplicated list>>, <<>> before
    sb_candidates,      \* score_candidates: its argument
    sb_responses,       \* score_candidates: what each request made came to
    sb_results,         \* score_candidates: `results`, in the order of the loop
    sb_returned,        \* score_candidates: <<the list returned>>, <<>> before
    sb_pc,              \* score_candidates: "idle" | "loop" | "returned" | "raised"
    rt_data,            \* save_json: `data`
    rt_file,            \* the text save_json wrote
    rt_loaded,          \* what load_json returned
    rt_pc               \* "idle" | "start" | "saved" | "loaded"

session_vars == <<argv, args, labeled_data, candidates, num_to_review, i,
                  verified_count, rejected_count, skipped_count, decision,
                  shown, decisions, opened>>

site_vars == <<index_html, screenshots>>

category_vars == <<dc_candidate, dc_result>>

search_vars == <<self_embeddings, self_cooperatives, sc_candidate, web_content,
                 sc_result>>

\* the variables of the functions that are run on their own
normalize_vars == <<nn_name, nn_url, nn_result>>

fetch_vars == <<all_candidates, unique_candidates>>

batch_vars == <<sb_candidates, sb_responses, sb_results, sb_returned, sb_pc>>

roundtrip_vars == <<rt_data, rt_file, rt_loaded, rt_pc>>

function_vars == <<category_vars, search_vars, normalize_vars, fetch_vars,
                   batch_vars, roundtrip_vars>>

vars == <<labeled_file, similarity_file, sos_file, site_vars, pc,
          session_vars, runs, issued_ids, function_vars>>

-----------------------------------------------------------------------------
(* Bounds of the model *)

MaxResults == 2     \* longest similarity_results.json
MaxRuns == 2        \* script runs in one behaviour
MaxNeighbours == 3  \* longest most_similar list given to determine_category alone
MaxSos == 2         \* longest sos_candidates.json
MaxVerified == 6    \* most embeddings in cooperative_embeddings.pkl

-----------------------------------------------------------------------------
(* Python values *)

None == <<"None">>

\* the ids of the verified records of a store
verified_ids(ld) ==
    {ld.verified_cooperatives[k].id : k \in DOMAIN ld.verified_cooperatives}

\* dict.get(key, default)
Get(d, key, default) == IF key \in DOMAIN d THEN d[key] ELSE default

\* truth value of an optional str: `if coop.get('website')`
Truthy(v) == v # None /\ v # <<>>

\* max() of a non-empty collection of ints
Max(S) == CHOOSE m \in S : \A x \in S : x <= m

Min2(a, b) == IF a <= b THEN a ELSE b

Range(s) == {s[k] : k \in DOMAIN s}

-----------------------------------------------------------------------------
(* Python str methods, on sequences of characters *)

UpperToLower ==
    ("A" :> "a") @@ ("B" :> "b") @@ ("C" :> "c") @@ ("D" :> "d") @@ ("E" :> "e") @@
    ("F" :> "f") @@ ("G" :> "g") @@ ("H" :> "h") @@ ("I" :> "i") @@ ("J" :> "j") @@
    ("K" :> "k") @@ ("L" :> "l") @@ ("M" :> "m") @@ ("N" :> "n") @@ ("O" :> "o") @@
    ("P" :> "p") @@ ("Q" :> "q") @@ ("R" :> "r") @@ ("S" :> "s") @@ ("T" :> "t") @@
    ("U" :> "u") @@ ("V" :> "v") @@ ("W" :> "w") @@ ("X" :> "x") @@ ("Y" :> "y") @@
    ("Z" :> "z")

\* str.lower()
lower(s) ==
    [k \in DOMAIN s |->
        IF s[k] \in DOMAIN UpperToLower THEN UpperToLower[s[k]] ELSE s[k]]

\* the whitespace characters the strings of the model hold
Whitespace == {" ", "\t", "\n"}

\* str.strip()
RECURSIVE lstrip(_)
lstrip(s) == IF s # <<>> /\ Head(s) \in Whitespace THEN lstrip(Tail(s)) ELSE s

RECURSIVE rstrip(_)
rstrip(s) ==
    IF s # <<>> /\ s[Len(s)] \in Whitespace
    THEN rstrip(SubSeq(s, 1, Len(s) - 1)) ELSE s

strip(s) == rstrip(lstrip(s))

\* `sub in s`
contains(s, sub) ==
    \E k \in 0..(Len(s) - Len(sub)) : SubSeq(s, k + 1, k + Len(sub)) = sub

\* s.replace(ch, "") for a single character ch
remove_char(s, ch) == LET keep(c) == c # ch IN SelectSeq(s, keep)

\* any(kw in s for kw in keywords)
contains_any(s, keywords) == \E kw \in keywords : contains(s, kw)

-----------------------------------------------------------------------------
(* verify_candidates.py *)

DefaultNum == 10
DefaultMinScore == 4

\* argparse: an omitted flag (<<>> here, <<v>> when given) takes its default
parse_args(flags) ==
    [num       |-> IF flags.num = <<>> THEN DefaultNum ELSE flags.num[1],
     min_score |-> IF flags.min_score = <<>> THEN DefaultMinScore
                   ELSE flags.min_score[1]]

\* variant: the rejected websites are left out of the reviewed set
reviewed_websites_verified_only(ld) ==
    {ld.verified_cooperatives[k].website : k \in DOMAIN ld.verified_cooperatives}

reviewed_websites(ld) ==
    {ld.verified_cooperatives[k].website : k \in DOMAIN ld.verified_cooperatives}
        \cup {ld.rejected_candidates[k].website : k \in DOMAIN ld.rejected_candidates}

score_key(x) == Get(x, "cooperative_score", 0)

\* variant: an unstable sort, an element goes before the elements of equal key
RECURSIVE insert_desc_unstable(_, _)
insert_desc_unstable(sorted, x) ==
    IF sorted = <<>> THEN <<x>>
    ELSE IF score_key(Head(sorted)) > score_key(x)
         THEN <<Head(sorted)>> \o insert_desc_unstable(Tail(sorted), x)
         ELSE <<x>> \o sorted

\* list.sort(key=..., reverse=True) is stable: an element goes behind every
\* element whose key is at least its own.
RECURSIVE insert_desc(_, _)
insert_desc(sorted, x) ==
    IF sorted = <<>> THEN <<x>>
    ELSE IF score_key(Head(sorted)) >= score_key(x)
         THEN <<Head(sorted)>> \o insert_desc(Tail(sorted), x)
         ELSE <<x>> \o sorted

RECURSIVE sort_desc(_)
sort_desc(s) ==
    IF s = <<>> THEN <<>>
    ELSE insert_desc(sort_desc(SubSeq(s, 1, Len(s) - 1)), s[Len(s)])

\* variant: the threshold is exclusive
get_unreviewed_candidates_strict(ld, similarity_results, min_score) ==
    LET reviewed == reviewed_websites(ld)
        keep(c) == c.website \notin reviewed
                   /\ Get(c, "cooperative_score", 0) > min_score
    IN  sort_desc(SelectSeq(similarity_results, keep))

get_unreviewed_candidates(ld, similarity_results, min_score) ==
    LET reviewed == reviewed_websites(ld)
        keep(c) == c.website \notin reviewed
                   /\ Get(c, "cooperative_score", 0) >= min_score
    IN  sort_desc(SelectSeq(similarity_results, keep))

has_most_similar(candidate) ==
    /\ "similarity_scores" \in DOMAIN candidate
    /\ "most_similar" \in DOMAIN candidate.similarity_scores
    /\ candidate.similarity_scores.most_similar # <<>>

\* category_counts as a dict: its keys in insertion order, and the counts
RECURSIVE count_categories(_, _, _)
count_categories(most_similar, keys, counts) ==
    IF most_similar = <<>> THEN [keys |-> keys, counts |-> counts]
    ELSE LET cat == Get(Head(most_similar), "category", "other")
         IN  IF cat \in DOMAIN counts
             THEN count_categories(Tail(most_similar), keys,
                                   [counts EXCEPT ![cat] = @ + 1])
             ELSE count_categories(Tail(most_similar), Append(keys, cat),
                                   counts @@ (cat :> 1))

\* variant: the last key of maximal value wins
RECURSIVE max_by_count_last(_, _, _)
max_by_count_last(keys, counts, best) ==
    IF keys = <<>> THEN best
    ELSE max_by_count_last(Tail(keys), counts,
                           IF counts[Head(keys)] >= counts[best]
                           THEN Head(keys) ELSE best)

\* max(d, key=d.get): the first key, in iteration order, of maximal value
RECURSIVE max_by_count(_, _, _)
max_by_count(keys, counts, best) ==
    IF keys = <<>> THEN best
    ELSE max_by_count(Tail(keys), counts,
                      IF counts[Head(keys)] > counts[best] THEN Head(keys)
                      ELSE best)

determine_category(candidate) ==
    IF has_most_similar(candidate)
    THEN LET d == count_categories(candidate.similarity_scores.most_similar,
                                   <<>>, <<>>)
         IN  max_by_count(Tail(d.keys), d.counts, Head(d.keys))
    ELSE "other"

\* variant: total_reviewed is the batch's count, not the running total
update_stats_batch_only(ld, v_count, r_count) ==
    LET total_verified == Len(ld.verified_cooperatives)
        total_reviewed == v_count + r_count
        sample == [timestamp |-> "now",
                   verified |-> v_count,
                   rejected |-> r_count,
                   precision |-> <<v_count, v_count + r_count>>,
                   cumulative_verified |-> total_verified,
                   cumulative_reviewed |-> total_reviewed]
    IN  [ld EXCEPT
            !.stats = [total_verified |-> total_verified,
                       total_rejected |-> Len(ld.rejected_candidates),
                       total_reviewed |-> total_reviewed,
                       precision_history |->
                           IF v_count + r_count > 0
                           THEN Append(ld.stats.precision_history, sample)
                           ELSE ld.stats.precision_history],
            !.metadata = [last_updated |-> "now"]]

\* variant: the sample carries the totals of before the update
update_stats_stale_sample(ld, v_count, r_count) ==
    LET total_verified == Len(ld.verified_cooperatives)
        total_reviewed == ld.stats.total_reviewed + v_count + r_count
        sample == [timestamp |-> "now",
                   verified |-> v_count,
                   rejected |-> r_count,
                   precision |-> <<v_count, v_count + r_count>>,
                   cumulative_verified |-> ld.stats.total_verified,
                   cumulative_reviewed |-> ld.stats.total_reviewed]
    IN  [ld EXCEPT
            !.stats = [total_verified |-> total_verified,
                       total_rejected |-> Len(ld.rejected_candidates),
                       total_reviewed |-> total_reviewed,
                       precision_history |->
                           IF v_count + r_count > 0
                           THEN Append(ld.stats.precision_history, sample)
                           ELSE ld.stats.precision_history],
            !.metadata = [last_updated |-> "now"]]

update_stats(ld, v_count, r_count) ==
    LET total_verified == Len(ld.verified_cooperatives)
        total_reviewed == ld.stats.total_reviewed + v_count + r_count
        sample == [timestamp |-> "now",
                   verified |-> v_count,
                   rejected |-> r_count,
                   precision |-> <<v_count, v_count + r_count>>,
                   cumulative_verified |-> total_verified,
                   cumulative_reviewed |-> total_reviewed]
    IN  [ld EXCEPT
            !.stats = [total_verified |-> total_verified,
                       total_rejected |-> Len(ld.rejected_candidates),
                       total_reviewed |-> total_reviewed,
                       precision_history |->
                           IF v_count + r_count > 0
                           THEN Append(ld.stats.precision_history, sample)
                           ELSE ld.stats.precision_history],
            !.metadata = [last_updated |-> "now"]]

\* variant: the id is the length of the list plus one
new_verified_by_length(ld, candidate, category) ==
    [id |-> Len(ld.verified_cooperatives) + 1,
     name |-> candidate.name,
     category |-> category,
     website |-> candidate.website,
     location |-> Get(candidate, "location", <<"I","o","w","a">>),
     verified_date |-> "now",
     source |-> "ml_pipeline",
     similarity_score |-> Get(candidate, "cooperative_score", 0)]

new_verified(ld, candidate, category) ==
    [id |-> Max({ld.verified_cooperatives[k].id :
                    k \in DOMAIN ld.verified_cooperatives}) + 1,
     name |-> candidate.name,
     category |-> category,
     website |-> candidate.website,
     location |-> Get(candidate, "location", <<"I","o","w","a">>),
     verified_date |-> "now",
     source |-> "ml_pipeline",
     similarity_score |-> Get(candidate, "cooperative_score", 0)]

new_rejected(candidate) ==
    [name |-> candidate.name,
     website |-> candidate.website,
     location |-> Get(candidate, "location", <<"U","n","k","n","o","w","n">>),
     rejected_date |-> "now",
     similarity_score |-> Get(candidate, "cooperative_score", 0),
     reason |-> "not_cooperative"]

-----------------------------------------------------------------------------
(* Names and URLs of the model *)

RV_COOP == <<"R","V"," ","C","O","O","P">>
ENT_CREDIT_UNION == <<"E","N","T"," ","C","R","E","D","I","T"," ","U","N","I","O","N">>
URL_AGSTATE == <<"h","t","t","p","s",":","/","/","a","g","s","t","a","t","e",".","o","r","g","/">>
URL_ENT == <<"h","t","t","p","s",":","/","/","w","w","w",".","e","n","t",".","c","o","m","/">>
URL_A == <<"h","t","t","p",":","/","/","a",".","i","o">>
URL_A_VARIANT == <<"h","t","t","p",":","/","/","A",".","i","o","/">>
URL_B == <<"h","t","t","p",":","/","/","b",".","i","o">>
URL_C == <<"h","t","t","p",":","/","/","c",".","i","o">>
URL_D == <<"h","t","t","p",":","/","/","d",".","i","o">>

AGSTATE == <<"A","G","S","T","A","T","E"," ","C","O","O","P","E","R","A","T","I","V","E">>
FIRST_COOP == <<"F","I","R","S","T"," ","C","O","O","P","E","R","A","T","I","V","E"," ","A","S","S","O","C","I","A","T","I","O","N">>

-----------------------------------------------------------------------------
(* import_sos_cooperatives.py *)

COOP_CORP_TYPES ==
    {"CO-OP NON STOCK", "CO-OP STOCK", "DOMESTIC COOPERATIVE",
     "CO-OP STOCK VALUE ADDED"}

HIGH_CONF_PATTERNS ==
    {<<"r","u","r","a","l"," ","e","l","e","c","t","r","i","c">>,
     <<"e","l","e","c","t","r","i","c"," ","c","o","o","p","e","r","a","t","i","v","e">>,
     <<"p","o","w","e","r"," ","c","o","o","p","e","r","a","t","i","v","e">>,
     <<"t","e","l","e","p","h","o","n","e"," ","c","o","o","p","e","r","a","t","i","v","e">>,
     <<"t","e","l","e","c","o","m"," ","c","o","o","p","e","r","a","t","i","v","e">>,
     <<"f","a","r","m","e","r","s"," ","c","o","o","p","e","r","a","t","i","v","e">>,
     <<"c","o","o","p","e","r","a","t","i","v","e"," ","e","l","e","v","a","t","o","r">>,
     <<"c","o","o","p","e","r","a","t","i","v","e"," ","e","x","c","h","a","n","g","e">>,
     <<"c","r","e","d","i","t"," ","u","n","i","o","n">>,
     <<"f","o","o","d"," ","c","o","-","o","p">>,
     <<"f","o","o","d"," ","c","o","o","p","e","r","a","t","i","v","e">>}

AGRICULTURAL_KEYWORDS ==
    {<<"f","a","r","m">>,
     <<"g","r","a","i","n">>,
     <<"e","l","e","v","a","t","o","r">>,
     <<"s","e","e","d">>,
     <<"a","g","r","i">>,
     <<"d","a","i","r","y">>,
     <<"l","i","v","e","s","t","o","c","k">>}

\* determine_category(name, hint) of import_sos_cooperatives.py
sos_determine_category(name, hint) ==
    LET name_lower == lower(name)
    IN  IF contains_any(name_lower, {<<"e","l","e","c","t","r","i","c">>, <<"p","o","w","e","r">>})
        THEN "electric"
        ELSE IF contains_any(name_lower, {<<"t","e","l","e","p","h","o","n","e">>, <<"t","e","l","e","c","o","m">>,
                                           <<"c","o","m","m","u","n","i","c","a","t","i","o","n","s">>})
        THEN "telecom"
        ELSE IF contains(name_lower, <<"c","r","e","d","i","t"," ","u","n","i","o","n">>)
        THEN "credit"
        ELSE IF contains_any(name_lower, AGRICULTURAL_KEYWORDS)
        THEN "agricultural"
        ELSE IF contains_any(name_lower, {<<"f","o","o","d">>, <<"m","a","r","k","e","t">>, <<"g","r","o","c","e","r","y">>})
        THEN "food"
        ELSE IF contains_any(name_lower, {<<"h","o","u","s","i","n","g">>, <<"h","o","m","e">>})
        THEN "housing"
        ELSE IF hint # "other" THEN hint
        ELSE "other"

is_high_conf(c) ==
    \/ ("corp_type" \in DOMAIN c /\ c.corp_type \in COOP_CORP_TYPES)
    \/ contains_any(lower(c.name), HIGH_CONF_PATTERNS)

sos_new_coop(c, id) ==
    [id |-> id,
     name |-> c.name,
     category |-> sos_determine_category(c.name, Get(c, "category_hint", "other")),
     website |-> None,
     location |-> Get(c, "location", <<"I","o","w","a">>),
     verified_date |-> "now",
     source |-> "iowa_sos",
     corp_type |-> Get(c, "corp_type", "None"),
     corp_number |-> Get(c, "corp_number", "None")]

\* variant: the names added in the run are not remembered
RECURSIVE sos_add_names_frozen(_, _, _, _)
sos_add_names_frozen(high_conf, verified, verified_names, max_id) ==
    IF high_conf = <<>> THEN verified
    ELSE LET c == Head(high_conf)
             key == strip(lower(c.name))
         IN  IF key \in verified_names
             THEN sos_add_names_frozen(Tail(high_conf), verified,
                                       verified_names, max_id)
             ELSE sos_add_names_frozen(Tail(high_conf),
                          Append(verified, sos_new_coop(c, max_id + 1)),
                          verified_names, max_id + 1)

\* the same loop, counting: skipped_dup at its end
RECURSIVE sos_skipped_dup(_, _)
sos_skipped_dup(high_conf, verified_names) ==
    IF high_conf = <<>> THEN 0
    ELSE LET key == strip(lower(Head(high_conf).name))
         IN  IF key \in verified_names
             THEN 1 + sos_skipped_dup(Tail(high_conf), verified_names)
             ELSE sos_skipped_dup(Tail(high_conf), verified_names \cup {key})

\* the loop over high_conf: a name already verified, or added earlier in
\* the loop, is skipped; every other candidate takes the next id
RECURSIVE sos_add(_, _, _, _)
sos_add(high_conf, verified, verified_names, max_id) ==
    IF high_conf = <<>> THEN verified
    ELSE LET c == Head(high_conf)
             key == strip(lower(c.name))
         IN  IF key \in verified_names
             THEN sos_add(Tail(high_conf), verified, verified_names, max_id)
             ELSE sos_add(Tail(high_conf),
                          Append(verified, sos_new_coop(c, max_id + 1)),
                          verified_names \cup {key}, max_id + 1)

\* main() numbering from the length of the list instead of its greatest id
import_sos_from_length(ld, sos_candidates) ==
    LET verified == ld.verified_cooperatives
        verified_names == {strip(lower(verified[k].name)) : k \in DOMAIN verified}
        high_conf == SelectSeq(sos_candidates, is_high_conf)
        added == sos_add(high_conf, verified, verified_names, Len(verified))
    IN  [ld EXCEPT !.verified_cooperatives = added,
                   !.stats.total_verified = Len(added),
                   !.metadata = [last_updated |-> "now"]]

\* main(); max() of an empty list raises ValueError before anything is saved
import_sos(ld, sos_candidates) ==
    LET verified == ld.verified_cooperatives
        verified_names == {strip(lower(verified[k].name)) : k \in DOMAIN verified}
        high_conf == SelectSeq(sos_candidates, is_high_conf)
        max_id == Max({verified[k].id : k \in DOMAIN verified})
        added == sos_add(high_conf, verified, verified_names, max_id)
    IN  [ld EXCEPT !.verified_cooperatives = added,
                   !.stats.total_verified = Len(added),
                   !.metadata = [last_updated |-> "now"]]

-----------------------------------------------------------------------------
(* restore_unclear_coops.py *)

\* CATEGORIZED, in the order of the dict: three of its 44 entries
CATEGORIZED ==
    << <<AGSTATE, "agricultural">>,
       <<FIRST_COOP, "agricultural">>,
       <<RV_COOP, "other">> >>

\* get_sos_info: the first entry of that name, or the empty sequence for {}
get_sos_info(name, sos_candidates) ==
    LET hit(c) == c.name = name
    IN  SubSeq(SelectSeq(sos_candidates, hit), 1,
               Min2(1, Len(SelectSeq(sos_candidates, hit))))

restore_new_coop(name, category, info, id) ==
    [id |-> id,
     name |-> name,
     category |-> category,
     website |-> None,
     location |-> Get(info, "location", <<"I","o","w","a">>),
     verified_date |-> "now",
     source |-> "iowa_sos",
     corp_type |-> Get(info, "corp_type", "None"),
     corp_number |-> Get(info, "corp_number", "None")]

RECURSIVE restore_add(_, _, _, _, _)
restore_add(items, sos_candidates, verified, verified_names, max_id) ==
    IF items = <<>> THEN verified
    ELSE LET name == Head(items)[1]
             info == get_sos_info(name, sos_candidates)
         IN  IF name \in verified_names \/ info = <<>>
             THEN restore_add(Tail(items), sos_candidates, verified,
                              verified_names, max_id)
             ELSE restore_add(Tail(items), sos_candidates,
                              Append(verified,
                                     restore_new_coop(name, Head(items)[2],
                                                      info[1], max_id + 1)),
                              verified_names \cup {name}, max_id + 1)

\* main(); max() of an empty list raises ValueError before anything is saved
restore_unclear(ld, sos_candidates) ==
    LET verified == ld.verified_cooperatives
        verified_names == {verified[k].name : k \in DOMAIN verified}
        max_id == Max({verified[k].id : k \in DOMAIN verified})
        added == restore_add(CATEGORIZED, sos_candidates, verified,
                             verified_names, max_id)
    IN  [ld EXCEPT !.verified_cooperatives = added,
                   !.stats.total_verified = Len(added),
                   !.metadata = [last_updated |-> "now"]]

-----------------------------------------------------------------------------
(* update_all_websites.py *)

\* WEBSITES, in the order of the dict: three of its entries, two of which
\* carry the same URL
WEBSITES ==
    << <<AGSTATE, URL_AGSTATE>>,
       <<FIRST_COOP, URL_AGSTATE>>,
       <<ENT_CREDIT_UNION, URL_ENT>> >>

\* normalize_name of update_all_websites.py
websites_normalize_name(name) ==
    remove_char(remove_char(strip(lower(name)), ","), ".")

\* website_lookup[norm_name]: of equal normalised keys the last one stays
website_lookup(norm_name) ==
    LET hits == {k \in DOMAIN WEBSITES :
                    websites_normalize_name(WEBSITES[k][1]) = norm_name}
    IN  IF hits = {} THEN None ELSE WEBSITES[Max(hits)][2]

update_all_websites(data) ==
    LET update(coop) ==
            IF Truthy(Get(coop, "website", None)) THEN coop
            ELSE IF website_lookup(websites_normalize_name(coop.name)) # None
            THEN [coop EXCEPT !.website =
                    website_lookup(websites_normalize_name(coop.name))]
            ELSE coop
    IN  [data EXCEPT
            !.verified_cooperatives = [k \in DOMAIN @ |-> update(@[k])],
            !.metadata = [last_updated |-> "now"]]

-----------------------------------------------------------------------------
(* batch_import.py *)

BatchDefaultMinScore == 5
MissingScore == 10      \* coop.get('similarity_score', 1.0)

is_exportable(coop, min_score) ==
    /\ Get(coop, "source", "None") = "ml_pipeline"
    /\ ~Get(coop, "exported_to_website", FALSE)
    /\ Get(coop, "similarity_score", MissingScore) >= min_score

\* get_exportable_cooperatives returns references into labeled_data: here
\* the positions of the records in verified_cooperatives, in order
get_exportable_cooperatives(ld, min_score) ==
    LET ok(k) == is_exportable(ld.verified_cooperatives[k], min_score)
    IN  SelectSeq([k \in DOMAIN ld.verified_cooperatives |-> k], ok)

\* the regular expression finds every `{ id: N` of the page
get_current_max_id(html) ==
    IF html.entries = <<>> THEN 0
    ELSE Max({html.entries[k].id : k \in DOMAIN html.entries})

\* name.replace("'", "\\'")
RECURSIVE escape_quotes(_)
escape_quotes(name) ==
    IF name = <<>> THEN <<>>
    ELSE IF Head(name) = "'"
         THEN <<"\\", "'">> \o escape_quotes(Tail(name))
         ELSE <<Head(name)>> \o escape_quotes(Tail(name))

generate_coop_entry(coop) ==
    [id |-> coop.id, name |-> escape_quotes(coop.name),
     category |-> coop.category, website |-> coop.website]

\* variant: a page without the array is taken as it is
update_index_html_raises_never(html) == FALSE

\* update_index_html: `if not match: raise ValueError(...)`, before the page
\* is opened for writing
update_index_html_raises(html) == ~html.marker

\* update_index_html, when the array is found: the entries go to its end
update_index_html(html, cooperatives) ==
    [html EXCEPT !.entries =
        @ \o [k \in DOMAIN cooperatives |-> generate_coop_entry(cooperatives[k])]]

\* main() from the reassignment of ids on: the ids of the exportable
\* records become current_max_id + 1, + 2, ...
reassign_ids(verified, exportable, current_max_id) ==
    [k \in DOMAIN verified |->
        IF \E n \in DOMAIN exportable : exportable[n] = k
        THEN [verified[k] EXCEPT !.id =
                current_max_id
                    + (CHOOSE n \in DOMAIN exportable : exportable[n] = k)]
        ELSE verified[k]]

mark_exported(verified, exported_websites) ==
    [k \in DOMAIN verified |->
        IF verified[k].website \in exported_websites
        THEN ("exported_to_website" :> TRUE) @@ ("export_date" :> "now")
                @@ verified[k]
        ELSE verified[k]]

-----------------------------------------------------------------------------
(* The files the runs start from *)

neighbour(name, category, similarity) ==
    [name |-> name, category |-> category, similarity |-> similarity]

\* entries of similarity_results.json, as similarity_search.score_candidate
\* writes them; the last one lacks the optional keys that the readers
\* default with dict.get
CandidatePool ==
    { [name |-> <<"A","l","f","a">>, website |-> URL_A, location |-> <<"A","m","e","s">>,
       source |-> "web_search", content_extracted |-> TRUE,
       similarity_scores |->
           [top_k_mean |-> 7,
            most_similar |-> <<neighbour(<<"B","e","e">>, "electric", 8),
                               neighbour(<<"D","e","e">>, "electric", 7),
                               neighbour(<<"C","e","e">>, "credit", 6)>>],
       cooperative_score |-> 7],
      [name |-> <<"A","l","f","a"," ","C","o">>, website |-> URL_A, location |-> <<"A","m","e","s">>,
       source |-> "ncua", content_extracted |-> TRUE,
       similarity_scores |->
           [top_k_mean |-> 5,
            most_similar |-> <<neighbour(<<"C","e","e">>, "credit", 6),
                               neighbour(<<"B","e","e">>, "electric", 4)>>],
       cooperative_score |-> 5],
      [name |-> <<"A","L","F","A">>, website |-> URL_A_VARIANT, location |-> <<"A","m","e","s">>,
       source |-> "iaec", content_extracted |-> TRUE,
       similarity_scores |->
           [top_k_mean |-> 5,
            most_similar |-> <<neighbour(<<"B","e","e">>, "electric", 6),
                               neighbour(<<"C","e","e">>, "credit", 5),
                               neighbour(<<"D","e","e">>, "credit", 4)>>],
       cooperative_score |-> 5],
      [name |-> <<"B","e","e">>, website |-> URL_B, location |-> <<"A","m","e","s">>,
       source |-> "web_search", content_extracted |-> TRUE,
       similarity_scores |->
           [top_k_mean |-> 9,
            most_similar |-> <<[name |-> <<"D","e","e">>, similarity |-> 9],
                               neighbour(<<"C","e","e">>, "credit", 9)>>],
       cooperative_score |-> 9],
      [name |-> <<"C","e","e">>, website |-> URL_C, content_extracted |-> FALSE] }

original(id, name, category, website, source) ==
    [id |-> id, name |-> name, category |-> category, website |-> website,
     location |-> <<"I","o","w","a">>, verified_date |-> "now", source |-> source]

store(verified, rejected) ==
    [verified_cooperatives |-> verified,
     rejected_candidates |-> rejected,
     stats |-> [total_verified |-> Len(verified),
                total_rejected |-> Len(rejected),
                total_reviewed |-> Len(rejected),
                precision_history |-> <<>>],
     metadata |-> [last_updated |-> "now"]]

\* labeled_data.json before the first run: hand-curated records with
\* pairwise distinct ids and websites
LabeledStores ==
    { store(<<original(42, AGSTATE, "agricultural", None, "iowa_sos"),
              original(41, <<"B","e","e">>, "electric", URL_B, "iaec")>>,
            <<[name |-> <<"C","e","e">>, website |-> URL_C, location |-> <<"I","o","w","a">>,
               rejected_date |-> "now", similarity_score |-> 3,
               reason |-> "not_cooperative"]>>),
      store(<<original(1, <<"D","e","e">>, "credit", URL_D, "ncua")>>, <<>>) }

\* entries of sos_candidates.json, as process_iowa_sos.py writes them
sos_candidate(name, corp_type, category_hint) ==
    [name |-> name, website |-> None, location |-> <<"I","o","w","a">>,
     source |-> "iowa_sos", corp_type |-> corp_type, corp_number |-> "1",
     category_hint |-> category_hint, needs_website |-> TRUE]

SosPool ==
    {sos_candidate(AGSTATE, "CO-OP STOCK", "other"),
     sos_candidate(RV_COOP, "DOMESTIC LIMITED LIABILITY", "other"),
     sos_candidate(ENT_CREDIT_UNION, "DOMESTIC NONPROFIT", "credit")}

SosLists ==
    {s \in UNION {[1..n -> SosPool] : n \in 0..MaxSos} :
        \A j, k \in DOMAIN s : j # k => s[j] # s[k]}

\* the lists of pairwise distinct pool entries, in any order
ResultLists ==
    {s \in UNION {[1..n -> CandidatePool] : n \in 0..MaxResults} :
        \A j, k \in DOMAIN s : j # k => s[j] # s[k]}

-----------------------------------------------------------------------------
(* A run of verify_candidates.py: main() *)

NumFlags == {<<>>, <<1>>}
MinScoreFlags == {<<>>, <<0>>, <<7>>}
Choices == {"y", "n", "o", "s", "q"}
\* lines typed at "Press Enter to accept or type a different category:"
CustomCategories ==
    {<<>>, <<" ">>, <<"w","o","r","k","e","r">>,
     <<" ","w","o","r","k","e","r"," ">>}

\* the category a line of text names: categories are atoms here
category_name(text) ==
    IF text = <<"w","o","r","k","e","r">> THEN "worker" ELSE "unlisted"

\* variant: the typed category replaces the proposal only when the proposal
\* is 'other'
chosen_category_unless_inferred(inferred, typed) ==
    LET custom_cat == strip(typed)
    IN  IF custom_cat # <<>> /\ inferred = "other"
        THEN category_name(custom_cat) ELSE inferred

\* custom_cat = input(...).strip(); if custom_cat: category = custom_cat
chosen_category(inferred, typed) ==
    LET custom_cat == strip(typed)
    IN  IF custom_cat # <<>> THEN category_name(custom_cat) ELSE inferred

\* main() up to the first prompt: load both files, build the queue, show
\* the first candidate; with an empty queue main() returns without saving
VerifyStart(flags) ==
    /\ pc # "prompt"
    /\ runs < MaxRuns
    /\ runs' = runs + 1
    /\ LET a == parse_args(flags)
           queue == get_unreviewed_candidates(labeled_file, similarity_file,
                                              a.min_score)
       IN  /\ argv' = flags
           /\ args' = a
           /\ labeled_data' = labeled_file
           /\ candidates' = queue
           /\ verified_count' = 0
           /\ rejected_count' = 0
           /\ skipped_count' = 0
           /\ decision' = ""
           /\ decisions' = <<>>
           /\ opened' = {}
           /\ IF queue = <<>>
              THEN /\ pc' = "exited"
                   /\ num_to_review' = 0
                   /\ i' = 0
                   /\ shown' = <<>>
              ELSE /\ pc' = "prompt"
                   /\ num_to_review' = Min2(a.num, Len(queue))
                   /\ i' = 1
                   /\ shown' = <<queue[1]>>
    /\ UNCHANGED <<labeled_file, similarity_file, sos_file, site_vars,
                   issued_ids, function_vars>>

\* variant: a skip is recorded like a rejection
decide_skip_rejects(ld, candidate, choice, category) ==
    CASE choice = "y" ->
            [ld EXCEPT !.verified_cooperatives =
                            Append(@, new_verified(ld, candidate, category))]
      [] choice \in {"n", "s"} ->
            [ld EXCEPT !.rejected_candidates =
                            Append(@, new_rejected(candidate))]
      [] OTHER -> ld

\* variant: the candidate on display at 'q' is recorded as rejected
decide_quit_rejects(ld, candidate, choice, category) ==
    CASE choice = "y" ->
            [ld EXCEPT !.verified_cooperatives =
                            Append(@, new_verified(ld, candidate, category))]
      [] choice \in {"n", "q"} ->
            [ld EXCEPT !.rejected_candidates =
                            Append(@, new_rejected(candidate))]
      [] OTHER -> ld

\* the store after the decision on `candidate`
decide(ld, candidate, choice, category) ==
    CASE choice = "y" ->
            [ld EXCEPT !.verified_cooperatives =
                            Append(@, new_verified(ld, candidate, category))]
      [] choice = "n" ->
            [ld EXCEPT !.rejected_candidates =
                            Append(@, new_rejected(candidate))]
      [] OTHER -> ld

\* one answer at "Your choice:" (get_user_decision returns only the five
\* valid letters) and, for 'y', the answer at the category prompt; then
\* main() runs on to the next prompt or, after the last candidate or 'q',
\* through update_stats and save_json to its end
Decide(choice, typed) ==
    /\ pc = "prompt"
    /\ decision' = choice
    /\ LET candidate == candidates[i]
       IN  IF choice = "o"
           THEN /\ opened' = opened \cup {candidate.website}
                /\ UNCHANGED <<labeled_file, pc, labeled_data, i,
                               verified_count, rejected_count, skipped_count,
                               shown, decisions>>
           ELSE IF choice = "y" /\ labeled_data.verified_cooperatives = <<>>
           THEN \* max() of an empty sequence raises ValueError
                /\ pc' = "exited"
                /\ UNCHANGED <<labeled_file, labeled_data, i, verified_count,
                               rejected_count, skipped_count, shown,
                               decisions, opened>>
           ELSE LET inferred == IF choice = "y"
                                THEN determine_category(candidate) ELSE ""
                    category == IF choice = "y"
                                THEN chosen_category(inferred, typed)
                                ELSE ""
                    ld == decide(labeled_data, candidate, choice, category)
                    v_count == verified_count + IF choice = "y" THEN 1 ELSE 0
                    r_count == rejected_count + IF choice = "n" THEN 1 ELSE 0
                IN  /\ verified_count' = v_count
                    /\ rejected_count' = r_count
                    /\ skipped_count' =
                           skipped_count + IF choice = "s" THEN 1 ELSE 0
                    /\ decisions' = Append(decisions,
                                           [choice |-> choice,
                                            inferred |-> inferred,
                                            custom_cat |-> strip(typed),
                                            category |-> category])
                    /\ IF choice = "q" \/ i = num_to_review
                       THEN /\ labeled_data' = update_stats(ld, v_count, r_count)
                            /\ labeled_file' = labeled_data'
                            /\ pc' = "exited"
                            /\ UNCHANGED <<i, shown>>
                       ELSE /\ labeled_data' = ld
                            /\ i' = i + 1
                            /\ shown' = Append(shown, candidates[i + 1])
                            /\ UNCHANGED <<labeled_file, pc>>
                    /\ UNCHANGED opened
    /\ issued_ids' = issued_ids \cup verified_ids(labeled_file')
    /\ UNCHANGED <<similarity_file, sos_file, site_vars, argv, args,
                   candidates, num_to_review, runs, function_vars>>

-----------------------------------------------------------------------------
(* Review sessions only *)

\* no review session has run yet
NoSession ==
    /\ pc = "idle"
    /\ argv = [num |-> <<>>, min_score |-> <<>>]
    /\ args = parse_args(argv)
    /\ labeled_data = labeled_file
    /\ candidates = <<>>
    /\ num_to_review = 0
    /\ i = 0
    /\ verified_count = 0
    /\ rejected_count = 0
    /\ skipped_count = 0
    /\ decision = ""
    /\ shown = <<>>
    /\ decisions = <<>>
    /\ opened = {}

\* similarity_search.py is not running
NoSearch ==
    /\ self_embeddings = <<>>
    /\ self_cooperatives = <<>>
    /\ sc_candidate = [name |-> <<>>]
    /\ web_content = None
    /\ sc_result = <<>>

\* normalize_name and extract_domain are not being run on their own
NoNormalize ==
    /\ nn_name = <<>>
    /\ nn_url = None
    /\ nn_result = <<>>

\* fetch_candidates.py is not running
NoFetch ==
    /\ all_candidates = <<>>
    /\ unique_candidates = <<>>

\* score_candidates is not running
NoBatch ==
    /\ sb_candidates = <<>>
    /\ sb_responses = <<>>
    /\ sb_results = <<>>
    /\ sb_returned = <<>>
    /\ sb_pc = "idle"

\* no file is being written and read back
NoRoundTrip ==
    /\ rt_data = <<>>
    /\ rt_file = <<>>
    /\ rt_loaded = <<>>
    /\ rt_pc = "idle"

\* no function is being run on its own
NoCall ==
    /\ dc_candidate = [name |-> <<>>]
    /\ dc_result = ""
    /\ NoSearch
    /\ NoNormalize
    /\ NoFetch
    /\ NoRoundTrip
    /\ NoBatch

Init ==
    /\ labeled_file \in LabeledStores
    /\ similarity_file \in ResultLists
    /\ sos_file = <<>>
    /\ index_html = [marker |-> TRUE, entries |-> <<>>]
    /\ screenshots = {}
    /\ NoSession
    /\ runs = 0
    /\ issued_ids = verified_ids(labeled_file)
    /\ NoCall

Verify ==
    \E num \in NumFlags, min_score \in MinScoreFlags :
        VerifyStart([num |-> num, min_score |-> min_score])

Review ==
    \E choice \in Choices, typed \in CustomCategories :
        /\ choice # "y" => typed = <<>>
        /\ Decide(choice, typed)

Next == Verify \/ Review

Spec == Init /\ [][Next]_vars

-----------------------------------------------------------------------------
(* Runs of the batch scripts; no script starts while a review session is   *)
(* at its prompt                                                           *)

ImportSos ==
    /\ pc # "prompt"
    /\ runs < MaxRuns
    /\ runs' = runs + 1
    /\ labeled_file' = IF labeled_file.verified_cooperatives = <<>>
                       THEN labeled_file
                       ELSE import_sos(labeled_file, sos_file)
    /\ issued_ids' = issued_ids \cup verified_ids(labeled_file')
    /\ UNCHANGED <<similarity_file, sos_file, site_vars, pc, session_vars,
                   function_vars>>

RestoreUnclear ==
    /\ pc # "prompt"
    /\ runs < MaxRuns
    /\ runs' = runs + 1
    /\ labeled_file' = IF labeled_file.verified_cooperatives = <<>>
                       THEN labeled_file
                       ELSE restore_unclear(labeled_file, sos_file)
    /\ issued_ids' = issued_ids \cup verified_ids(labeled_file')
    /\ UNCHANGED <<similarity_file, sos_file, site_vars, pc, session_vars,
                   function_vars>>

UpdateAllWebsites ==
    /\ pc # "prompt"
    /\ runs < MaxRuns
    /\ runs' = runs + 1
    /\ labeled_file' = update_all_websites(labeled_file)
    /\ issued_ids' = issued_ids \cup verified_ids(labeled_file')
    /\ UNCHANGED <<similarity_file, sos_file, site_vars, pc, session_vars,
                   function_vars>>

BatchMinScoreFlags == {<<>>, <<8>>}
Confirmations == {<<"y">>, <<"Y">>, <<>>, <<"y","e","s">>}

\* variant: a run goes on unless the answer is n
confirmed_unless_n(confirm) == lower(confirm) # <<"n">>

\* batch_import.py: `if confirm.lower() != 'y': ... return`
confirmed(confirm) == lower(confirm) = <<"y">>

\* batch_import_all.py: the same test
all_confirmed(confirm) == lower(confirm) = <<"y">>

\* main() of batch_import.py; ok is the set of exportable records whose
\* screenshot succeeds
BatchImport(dry_run, min_score_flag, confirm, ok) ==
    /\ pc # "prompt"
    /\ runs < MaxRuns
    /\ runs' = runs + 1
    /\ LET min_score == IF min_score_flag = <<>> THEN BatchDefaultMinScore
                        ELSE min_score_flag[1]
           exportable == get_exportable_cooperatives(labeled_file, min_score)
           current_max_id == get_current_max_id(index_html)
           verified == reassign_ids(labeled_file.verified_cooperatives,
                                    exportable, current_max_id)
           took(k) == k \in ok
           successful == SelectSeq(exportable, took)
           exported_websites ==
               {verified[successful[n]].website : n \in DOMAIN successful}
       IN  /\ ok \subseteq Range(exportable)
           /\ IF exportable = <<>> \/ dry_run \/ ~confirmed(confirm)
              THEN /\ ok = {}
                   /\ UNCHANGED <<labeled_file, site_vars>>
              ELSE /\ screenshots' = screenshots
                        \cup {verified[successful[n]].id : n \in DOMAIN successful}
                   /\ IF successful = <<>> \/ update_index_html_raises(index_html)
                      THEN \* "Aborting import", or ValueError from
                           \* update_index_html: nothing else is written
                           UNCHANGED <<labeled_file, index_html>>
                      ELSE /\ index_html' = update_index_html(index_html,
                                  [n \in DOMAIN successful |->
                                      verified[successful[n]]])
                           /\ labeled_file' =
                                  [labeled_file EXCEPT
                                      !.verified_cooperatives =
                                          mark_exported(verified,
                                                        exported_websites),
                                      !.metadata = [last_updated |-> "now"]]
    /\ issued_ids' = issued_ids \cup verified_ids(labeled_file')
    /\ UNCHANGED <<similarity_file, sos_file, pc, session_vars, function_vars>>

Export ==
    \E dry_run \in BOOLEAN, min_score_flag \in BatchMinScoreFlags,
       confirm \in Confirmations,
       ok \in SUBSET (DOMAIN labeled_file.verified_cooperatives) :
        BatchImport(dry_run, min_score_flag, confirm, ok)

\* labeled_data.json edited by hand before a run: one verified record removed
RemoveVerified(k) ==
    /\ pc # "prompt"
    /\ runs < MaxRuns
    /\ labeled_file' =
           [labeled_file EXCEPT !.verified_cooperatives =
               SubSeq(@, 1, k - 1) \o SubSeq(@, k + 1, Len(@))]
    /\ UNCHANGED <<similarity_file, sos_file, site_vars, pc, session_vars,
                   runs, issued_ids, function_vars>>

EditByHand ==
    \E k \in DOMAIN labeled_file.verified_cooperatives : RemoveVerified(k)

\* index.html as the site was built: the hand-curated records of the store
\* (batch_import.py adds the machine-found ones, the registry imports never
\* reach the page)
site_entries(ld) ==
    LET curated(coop) == coop.source \notin {"ml_pipeline", "iowa_sos"}
        shown_on_site == SelectSeq(ld.verified_cooperatives, curated)
    IN  [k \in DOMAIN shown_on_site |-> generate_coop_entry(shown_on_site[k])]

\* similarity_results.json of the runs below: the best of the pool first
RankedResults ==
    sort_desc(CHOOSE s \in [1..Cardinality(CandidatePool) -> CandidatePool] :
                 \A j, k \in DOMAIN s : j # k => s[j] # s[k])

RankedLists == {SubSeq(RankedResults, 1, n) : n \in 0..MaxResults}

\* the appending runs and the removal of records by hand between them
InitRemoval ==
    /\ labeled_file \in LabeledStores
    /\ similarity_file = SubSeq(RankedResults, 1, MaxResults)
    /\ sos_file \in SosLists
    /\ index_html = [marker |-> TRUE, entries |-> site_entries(labeled_file)]
    /\ screenshots = {}
    /\ NoSession
    /\ runs = 0
    /\ issued_ids = verified_ids(labeled_file)
    /\ NoCall

NextRemoval == Verify \/ Review \/ ImportSos \/ RestoreUnclear \/ EditByHand

SpecRemoval == InitRemoval /\ [][NextRemoval]_vars

\* the appending runs and the export to the site
InitExport ==
    /\ labeled_file \in LabeledStores
    /\ similarity_file \in RankedLists
    /\ sos_file \in SosLists
    /\ \E marker \in BOOLEAN :
          index_html = [marker |-> marker, entries |-> site_entries(labeled_file)]
    /\ screenshots = {}
    /\ NoSession
    /\ runs = 0
    /\ issued_ids = verified_ids(labeled_file)
    /\ NoCall

NextExport == Verify \/ Review \/ ImportSos \/ RestoreUnclear \/ Export

SpecExport == InitExport /\ [][NextExport]_vars

\* labeled_data.json after restore_unclear_coops.py: registry records
\* without a website
RegistryStores ==
    LabeledStores \cup
    { store(<<original(1, <<"D","e","e">>, "credit", URL_D, "ncua"),
              original(2, AGSTATE, "agricultural", None, "iowa_sos"),
              original(3, FIRST_COOP, "agricultural", None, "iowa_sos")>>,
            <<>>) }

\* review sessions and runs of update_all_websites.py
InitWebsites ==
    /\ labeled_file \in RegistryStores
    /\ similarity_file \in RankedLists
    /\ sos_file = <<>>
    /\ index_html = [marker |-> TRUE, entries |-> site_entries(labeled_file)]
    /\ screenshots = {}
    /\ NoSession
    /\ runs = 0
    /\ issued_ids = verified_ids(labeled_file)
    /\ NoCall

NextWebsites == Verify \/ Review \/ UpdateAllWebsites

SpecWebsites == InitWebsites /\ [][NextWebsites]_vars

-----------------------------------------------------------------------------
(* Properties of the review session *)

verified_websites(ld) ==
    {ld.verified_cooperatives[k].website : k \in DOMAIN ld.verified_cooperatives}

rejected_websites(ld) ==
    {ld.rejected_candidates[k].website : k \in DOMAIN ld.rejected_candidates}

\* the session is at a prompt, or returned at once on an empty queue: in
\* both cases labeled_file is still the store the run loaded
AtQueue ==
    \/ pc = "prompt"
    \/ pc = "exited" /\ decision = "" /\ runs > 0

\* the run that just ended saved its decisions
Saved == pc = "exited" /\ labeled_file = labeled_data

\* C1: the queue get_unreviewed_candidates builds at the start of a run holds
\* no candidate whose website is the website of a verified or rejected record
\* of the store the run loaded, whatever its score; and when a run starts
\* after a run that saved an accept or a reject for a website, that website
\* is not in the new queue.
C1_QueueExcludesReviewed ==
    /\ [](AtQueue =>
            \A k \in DOMAIN candidates :
                /\ \A j \in DOMAIN labeled_file.verified_cooperatives :
                       labeled_file.verified_cooperatives[j].website
                           # candidates[k].website
                /\ \A j \in DOMAIN labeled_file.rejected_candidates :
                       labeled_file.rejected_candidates[j].website
                           # candidates[k].website)
    /\ [][(Saved /\ runs' = runs + 1) =>
            \A j \in DOMAIN decisions :
                decisions[j].choice \in {"y", "n"} =>
                    \A k \in DOMAIN candidates' :
                        candidates'[k].website # shown[j].website]_vars

\* C1 witness: a second run is at its prompt and similarity_results.json
\* holds an entry at or above the threshold whose website an earlier run
\* accepted, so only the reviewed set keeps it out of the queue
C1_Witness ==
    /\ pc = "prompt"
    /\ runs = 2
    /\ \E j \in DOMAIN similarity_file, k \in DOMAIN labeled_file.verified_cooperatives :
          /\ labeled_file.verified_cooperatives[k].source = "ml_pipeline"
          /\ labeled_file.verified_cooperatives[k].website
                 = similarity_file[j].website
          /\ score_key(similarity_file[j]) >= args.min_score

\* C2: once an accept or a reject has put a website into the verified or the
\* rejected list, no candidate with that website is on display, a later
\* entry of the same session's queue included.
C2_NeverPresentedAgain ==
    pc = "prompt" =>
        candidates[i].website
            \notin verified_websites(labeled_data) \cup rejected_websites(labeled_data)

\* C3 as stated: every candidate skipped in a session that saved is in the
\* queue of the next run (same results, same minimum score).
C3_SkippedAlwaysRequeued ==
    Saved =>
        \A k \in DOMAIN decisions :
            decisions[k].choice = "s" =>
                \E n \in DOMAIN get_unreviewed_candidates(
                             labeled_file, similarity_file, args.min_score) :
                    get_unreviewed_candidates(
                        labeled_file, similarity_file, args.min_score)[n]
                        = shown[k]

\* C3 amended: a skipped candidate is in the queue of the next run unless
\* another entry with the same website was accepted or rejected in the
\* session; the skip itself puts its website into neither list.
C3_SkipNotTerminal ==
    Saved =>
        \A k \in DOMAIN decisions :
            (/\ decisions[k].choice = "s"
             /\ \A j \in DOMAIN decisions :
                    decisions[j].choice \in {"y", "n"} =>
                        shown[j].website # shown[k].website)
            => \E n \in DOMAIN get_unreviewed_candidates(
                            labeled_file, similarity_file, args.min_score) :
                   get_unreviewed_candidates(
                       labeled_file, similarity_file, args.min_score)[n]
                       = shown[k]

\* C3 witness: a saved session skipped one candidate and accepted another
C3_Witness ==
    /\ Saved
    /\ \E k, j \in DOMAIN decisions :
          /\ decisions[k].choice = "s"
          /\ decisions[j].choice = "y"
          /\ shown[j].website # shown[k].website

\* the records a run appended to the verified list of the file
appended_positions ==
    {k \in DOMAIN labeled_file'.verified_cooperatives :
        k > Len(labeled_file.verified_cooperatives)}

\* C4 as stated: every id given to an appended record is strictly greater
\* than every id the verified list ever held, removed records included.
C4_NeverReused ==
    [][\A k \in appended_positions : \A id \in issued_ids :
          labeled_file'.verified_cooperatives[k].id > id]_vars

\* C4 as amended: every id given to an appended record is strictly greater
\* than every id the verified list holds when the run loads it, and the ids
\* one run gives out increase in the order the records are appended.
C4_AboveStoredIds ==
    [][\A k \in appended_positions :
          /\ \A id \in verified_ids(labeled_file) :
                labeled_file'.verified_cooperatives[k].id > id
          /\ \A j \in appended_positions :
                j < k => labeled_file'.verified_cooperatives[j].id
                            < labeled_file'.verified_cooperatives[k].id]_vars

\* C4 witness: the registry record with id 42 was removed by hand and a
\* later session gave 42 to the candidate it accepted
C4_Witness ==
    /\ 42 \in issued_ids
    /\ \E k \in DOMAIN labeled_file.verified_cooperatives :
          /\ labeled_file.verified_cooperatives[k].id = 42
          /\ labeled_file.verified_cooperatives[k].source = "ml_pipeline"

\* the candidates accepted so far in the session, in the order accepted
RECURSIVE accepted_upto(_)
accepted_upto(n) ==
    IF n = 0 THEN <<>>
    ELSE IF decisions[n].choice = "y"
         THEN Append(accepted_upto(n - 1), shown[n])
         ELSE accepted_upto(n - 1)

\* C5: in a session the k-th accepted candidate is the k-th record appended
\* to verified_cooperatives and gets id m + k, m being the largest id of the
\* records the session loaded.
C5_SessionIds ==
    pc \in {"prompt", "exited"} /\ runs > 0 =>
        LET verified == labeled_data.verified_cooperatives
            loaded == Len(verified) - verified_count
            m == Max({verified[k].id : k \in 1..loaded})
            accepted == accepted_upto(Len(decisions))
        IN  /\ loaded >= 1
            /\ pc = "prompt" =>
                   SubSeq(verified, 1, loaded)
                       = labeled_file.verified_cooperatives
            /\ Len(accepted) = verified_count
            /\ \A k \in 1..verified_count :
                   /\ verified[loaded + k].id = m + k
                   /\ verified[loaded + k].name = accepted[k].name
                   /\ verified[loaded + k].website = accepted[k].website

\* C5 witness: the loaded maximum is 42 and two accepts got 43 and 44
C5_Witness ==
    /\ pc = "exited"
    /\ verified_count = 2
    /\ LET verified == labeled_data.verified_cooperatives
       IN  /\ Len(verified) = 4
           /\ Max({verified[1].id, verified[2].id}) = 42
           /\ verified[3].id = 43
           /\ verified[4].id = 44

\* C6: the ids of verified_cooperatives in labeled_data.json are pairwise
\* distinct after any runs of verify_candidates, import_sos_cooperatives,
\* restore_unclear_coops and batch_import.
C6_UniqueIds ==
    LET verified == labeled_file.verified_cooperatives
    IN  \A j, k \in DOMAIN verified :
            j # k => verified[j].id # verified[k].id

\* a website lower-cased and without its trailing slash
normalized_website(website) ==
    LET lowered == lower(website)
    IN  IF lowered # <<>> /\ lowered[Len(lowered)] = "/"
        THEN SubSeq(lowered, 1, Len(lowered) - 1)
        ELSE lowered

\* C7: no two records of verified_cooperatives in labeled_data.json with a
\* website have websites that are equal after lower-casing and stripping a
\* trailing slash, after any review sessions and update_all_websites runs.
C7_UniqueWebsites ==
    LET verified == labeled_file.verified_cooperatives
    IN  \A j, k \in DOMAIN verified :
            (j # k /\ verified[j].website # None /\ verified[k].website # None)
                => normalized_website(verified[j].website)
                       # normalized_website(verified[k].website)

\* C8: a similarity-results entry is in the queue exactly when its website
\* is not in the reviewed set and its cooperative_score (0 when absent) is
\* at least min_score; without --min-score the threshold is 0.4.
C8_Screening ==
    /\ AtQueue =>
          \A j \in DOMAIN similarity_file :
              (\E k \in DOMAIN candidates : candidates[k] = similarity_file[j])
              <=> /\ similarity_file[j].website
                         \notin verified_websites(labeled_file)
                                    \cup rejected_websites(labeled_file)
                  /\ (IF "cooperative_score" \in DOMAIN similarity_file[j]
                      THEN similarity_file[j].cooperative_score ELSE 0)
                         >= args.min_score
    /\ AtQueue => Len(candidates) <= Len(similarity_file)
    /\ argv.min_score = <<>> => args.min_score = 4

\* C8 witness: the queue holds an entry whose score equals the threshold
\* and leaves out an unreviewed entry below it
C8_Witness ==
    /\ pc = "prompt"
    /\ \E k \in DOMAIN candidates : score_key(candidates[k]) = args.min_score
    /\ \E j \in DOMAIN similarity_file :
          /\ score_key(similarity_file[j]) < args.min_score
          /\ similarity_file[j].website
                 \notin verified_websites(labeled_file)
                            \cup rejected_websites(labeled_file)

\* C9: the queue is in descending score order, entries of equal score keep
\* the order they have in similarity_results.json, and the candidates are
\* displayed in queue order, one per position.
C9_QueueOrder ==
    pc \in {"prompt", "exited"} /\ runs > 0 =>
        /\ \A k, l \in DOMAIN candidates :
               k < l => score_key(candidates[k]) >= score_key(candidates[l])
        /\ \A s \in {score_key(candidates[k]) : k \in DOMAIN candidates} :
               LET tied(c) == score_key(c) = s
                   queued(c) == tied(c) /\ c \in Range(candidates)
               IN  SelectSeq(candidates, tied)
                       = SelectSeq(similarity_file, queued)
        /\ Len(shown) <= num_to_review
        /\ shown = SubSeq(candidates, 1, Len(shown))
        /\ pc = "prompt" => Len(shown) = i

\* C9 witness: two different candidates of equal score were both displayed
C9_Witness ==
    /\ Len(shown) = 2
    /\ shown[1] # shown[2]
    /\ score_key(shown[1]) = score_key(shown[2])

\* C11: on every accept the category stored in the new verified record is
\* the category the reviewer typed (input().strip()) when that is non-empty
\* and the inferred category otherwise, whatever the inferred category is.
C11_OverrideWins ==
    [][(pc = "prompt" /\ verified_count' = verified_count + 1) =>
          LET verified == labeled_data'.verified_cooperatives
              answer == decisions'[Len(decisions')]
              stored == verified[Len(verified)].category
          IN  /\ Len(verified) = Len(labeled_data.verified_cooperatives) + 1
              /\ answer.inferred = determine_category(candidates[i])
              /\ IF answer.custom_cat # <<>>
                 THEN stored = category_name(answer.custom_cat)
                 ELSE stored = answer.inferred]_vars

\* C11 witness: the proposal was 'electric', the reviewer typed a category
\* and the record appended has category 'worker'
C11_Witness ==
    /\ decisions # <<>>
    /\ decisions[Len(decisions)].choice = "y"
    /\ decisions[Len(decisions)].inferred = "electric"
    /\ decisions[Len(decisions)].custom_cat = <<"w","o","r","k","e","r">>
    /\ LET verified == labeled_data.verified_cooperatives
       IN  verified[Len(verified)].category = "worker"

\* the step in which main() leaves the review loop, calls update_stats and
\* saves labeled_data.json
SessionEnds == pc = "prompt" /\ pc' = "exited"

\* C12: after the statistics update that ends a session with v accepts and
\* r rejects, total_verified is the length of verified_cooperatives,
\* total_rejected the length of rejected_candidates, and total_reviewed its
\* value before the session plus v + r.
C12_StatsAfterSession ==
    [][SessionEnds =>
          /\ labeled_file'.stats.total_verified
                = Len(labeled_file'.verified_cooperatives)
          /\ labeled_file'.stats.total_rejected
                = Len(labeled_file'.rejected_candidates)
          /\ labeled_file'.stats.total_reviewed
                = labeled_file.stats.total_reviewed
                      + verified_count' + rejected_count']_vars

\* C12 witness: the second session of a behaviour was saved after an accept
\* and a reject, on top of a store that had reviews counted already
C12_Witness ==
    /\ Saved
    /\ runs = 2
    /\ verified_count = 1
    /\ rejected_count = 1
    /\ labeled_file.stats.total_reviewed > 2

\* C13: a session with v accepts and r rejects appends exactly one entry to
\* precision_history when v + r > 0, with verified = v, rejected = r,
\* precision = v / (v + r) and the updated totals as cumulative_verified and
\* cumulative_reviewed; with v + r = 0 the history is unchanged; the entries
\* already there stay as they are.
C13_PrecisionHistory ==
    [][SessionEnds =>
          LET before == labeled_file.stats.precision_history
              after == labeled_file'.stats.precision_history
              v == verified_count'
              r == rejected_count'
          IN  IF v + r > 0
              THEN /\ Len(after) = Len(before) + 1
                   /\ SubSeq(after, 1, Len(before)) = before
                   /\ after[Len(after)].verified = v
                   /\ after[Len(after)].rejected = r
                   /\ after[Len(after)].precision = <<v, v + r>>
                   /\ after[Len(after)].cumulative_verified
                         = labeled_file'.stats.total_verified
                   /\ after[Len(after)].cumulative_reviewed
                         = labeled_file'.stats.total_reviewed
              ELSE after = before]_vars

\* C13 witness: a first session of one reject left a sample of precision
\* 0/1, and a second session of skips only left the history as it was
C13_Witness ==
    /\ Saved
    /\ runs = 2
    /\ verified_count + rejected_count = 0
    /\ skipped_count > 0
    /\ LET history == labeled_file.stats.precision_history
       IN  /\ Len(history) = 1
           /\ history[1].precision = <<0, 1>>

-----------------------------------------------------------------------------
(* determine_category on its own *)

\* a most_similar entry: of one of two categories, of the category 'other',
\* or without the category key
NeighbourEntries ==
    {neighbour(<<"B","e","e">>, "electric", 5),
     neighbour(<<"C","e","e">>, "credit", 5),
     neighbour(<<"D","e","e">>, "other", 5),
     [name |-> <<"D","e","e">>, similarity |-> 5]}

CategoryInputs ==
    {[name |-> <<"A","l","f","a">>, website |-> URL_A]}
    \cup {[name |-> <<"A","l","f","a">>, website |-> URL_A,
           similarity_scores |-> [most_similar |-> ms]] :
            ms \in UNION {[1..n -> NeighbourEntries] : n \in 0..MaxNeighbours}}

InitCategory ==
    /\ labeled_file = store(<<original(1, <<"D","e","e">>, "credit", URL_D, "ncua")>>, <<>>)
    /\ similarity_file = <<>>
    /\ sos_file = <<>>
    /\ index_html = [marker |-> TRUE, entries |-> <<>>]
    /\ screenshots = {}
    /\ NoSession
    /\ runs = 0
    /\ issued_ids = verified_ids(labeled_file)
    /\ dc_candidate \in CategoryInputs
    /\ dc_result = ""
    /\ NoSearch
    /\ NoNormalize
    /\ NoFetch
    /\ NoRoundTrip
    /\ NoBatch

InferCategory ==
    /\ dc_result = ""
    /\ dc_result' = determine_category(dc_candidate)
    /\ UNCHANGED <<labeled_file, similarity_file, sos_file, site_vars, pc,
                   session_vars, runs, issued_ids, dc_candidate, search_vars,
                   normalize_vars, fetch_vars, roundtrip_vars, batch_vars>>

NextCategory == InferCategory

SpecCategory == InitCategory /\ [][NextCategory]_vars

\* the categories of the argument's most_similar list, 'other' for an entry
\* without one; empty when there is no list
dc_categories ==
    IF "similarity_scores" \in DOMAIN dc_candidate
    THEN [n \in DOMAIN dc_candidate.similarity_scores.most_similar |->
            IF "category" \in DOMAIN dc_candidate.similarity_scores.most_similar[n]
            THEN dc_candidate.similarity_scores.most_similar[n].category
            ELSE "other"]
    ELSE <<>>

dc_count(c) == Cardinality({n \in DOMAIN dc_categories : dc_categories[n] = c})

\* C10: determine_category returns a category of maximal count among the
\* most_similar entries, and of those the one whose first entry comes
\* earliest; [electric, electric, credit] gives electric; without
\* most_similar entries the result is 'other'.
C10_MajorityThenFirst ==
    dc_result # "" =>
        /\ dc_categories = <<>> => dc_result = "other"
        /\ dc_categories # <<>> =>
              \E f \in DOMAIN dc_categories :
                  /\ dc_categories[f] = dc_result
                  /\ \A n \in DOMAIN dc_categories :
                        /\ dc_count(dc_categories[n]) <= dc_count(dc_result)
                        /\ dc_count(dc_categories[n]) = dc_count(dc_result)
                               => f <= n
        /\ dc_categories = <<"electric", "electric", "credit">>
               => dc_result = "electric"

\* C10 witness: three categories tie and the result is the first of them,
\* which is neither the last nor the greatest
C10_Witness ==
    /\ dc_categories = <<"electric", "credit", "other">>
    /\ dc_result = "electric"

-----------------------------------------------------------------------------
(* similarity_search.py: CooperativeSimilaritySearch *)

TOP_K == 5
PREVIEW == 500

RECURSIVE SumSeq(_)
SumSeq(s) == IF s = <<>> THEN 0 ELSE Head(s) + SumSeq(Tail(s))

Reverse(s) == [k \in DOMAIN s |-> s[Len(s) + 1 - k]]

\* the scalar product of two vectors of the same length
dot(a, b) == SumSeq([k \in DOMAIN a |-> a[k] * b[k]])

\* np.dot(self.embeddings, candidate_embedding)
np_dot(embeddings, candidate_embedding) ==
    [k \in DOMAIN embeddings |-> dot(embeddings[k], candidate_embedding)]

\* np.mean as the exact fraction <<sum, count>>
np_mean(values) == <<SumSeq(values), Len(values)>>

\* the float 0.0
ZERO == <<0, 1>>

\* equality of two fractions as numbers
same_number(a, b) == a[1] * b[2] = b[1] * a[2]

\* the orders in which the members of S can be listed
RECURSIVE Perms(_)
Perms(S) ==
    IF S = {} THEN {<<>>}
    ELSE UNION {{<<x>> \o rest : rest \in Perms(S \ {x})} : x \in S}

\* np.argsort(a) with the default kind, which is not a stable sort: the
\* positions by ascending value, positions of equal values in any order
RECURSIVE argsort_from(_, _)
argsort_from(a, left) ==
    IF left = {} THEN {<<>>}
    ELSE LET least == CHOOSE v \in {a[k] : k \in left} :
                          \A k \in left : v <= a[k]
             ties == {k \in left : a[k] = least}
         IN  {first \o rest : first \in Perms(ties),
                              rest \in argsort_from(a, left \ ties)}

ArgsortOutcomes(a) == argsort_from(a, DOMAIN a)

\* variant: order[:top_k], the first k of the ascending order
top_indices_from_front(order) ==
    SubSeq(order, 1, Min2(TOP_K, Len(order)))

\* variant: the first k rows as they are stored, whatever their similarity
top_indices_as_stored(order) ==
    [n \in 1..Min2(TOP_K, Len(order)) |-> n]

\* order[-top_k:][::-1]
top_indices(order) ==
    Reverse(SubSeq(order, Max({1, Len(order) - TOP_K + 1}), Len(order)))

\* compute_similarity, `order` being what np.argsort returned; np.max of
\* an empty array raises ValueError, so callers pass a non-empty array
compute_similarity(embeddings, cooperatives, candidate_embedding, order) ==
    LET similarities == np_dot(embeddings, candidate_embedding)
        top == top_indices(order)
    IN  [mean_similarity |-> np_mean(similarities),
         max_similarity |-> Max(Range(similarities)),
         top_k_mean |-> np_mean([n \in DOMAIN top |-> similarities[top[n]]]),
         most_similar |->
             [n \in DOMAIN top |->
                 [name |-> cooperatives[top[n]].name,
                  category |-> cooperatives[top[n]].category,
                  similarity |-> similarities[top[n]]]]]

\* create_embedding_text: "\n\n".join of the name, the location and the
\* content (content[:10000] is the whole content at these lengths)
create_embedding_text(name, location, content) ==
    name \o <<"\n", "\n">> \o <<"L","o","c","a","t","i","o","n",":"," ">> \o location
        \o (IF content # <<>> THEN <<"\n", "\n">> \o content ELSE <<>>)

\* self.model.encode(text, normalize_embeddings=True): the model is a fixed
\* function of the text; here, of whether the text speaks of a coop
encode(text) ==
    IF contains(text, <<"c","o","o","p">>) THEN <<1, 1>> ELSE <<1, -1>>

content_preview(content) ==
    IF Len(content) > PREVIEW
    THEN SubSeq(content, 1, PREVIEW) \o <<".", ".", ".">>
    ELSE content

\* variant: the result starts with an empty similarity detail, not null
unscored_empty_detail(candidate) ==
    [name |-> candidate.name,
     website |-> Get(candidate, "website", None),
     location |-> Get(candidate, "location", <<"I","o","w","a">>),
     source |-> Get(candidate, "source", "unknown"),
     content_extracted |-> FALSE,
     similarity_scores |-> [most_similar |-> <<>>],
     cooperative_score |-> ZERO]

\* score_candidate before the fetch: the result of a candidate without
\* content
unscored(candidate) ==
    [name |-> candidate.name,
     website |-> Get(candidate, "website", None),
     location |-> Get(candidate, "location", <<"I","o","w","a">>),
     source |-> Get(candidate, "source", "unknown"),
     content_extracted |-> FALSE,
     cooperative_score |-> ZERO]

scored(candidate, content, scores) ==
    [name |-> candidate.name,
     website |-> Get(candidate, "website", None),
     location |-> Get(candidate, "location", <<"I","o","w","a">>),
     source |-> Get(candidate, "source", "unknown"),
     content_extracted |-> TRUE,
     content_preview |-> content_preview(content),
     similarity_scores |-> scores,
     cooperative_score |-> scores.top_k_mean]

\* score_candidate; content is what fetch_and_extract returned (not called
\* without a website) and order what np.argsort returned
score_candidate(embeddings, cooperatives, candidate, content, order) ==
    IF Truthy(Get(candidate, "website", None)) /\ Truthy(content)
    THEN scored(candidate, content,
                compute_similarity(embeddings, cooperatives,
                    encode(create_embedding_text(candidate.name,
                               Get(candidate, "location", <<"I","o","w","a">>),
                               content)),
                    order))
    ELSE unscored(candidate)

\* the records of cooperative_embeddings.pkl, as generate_embeddings.py
\* writes them, with the embedding of each
EmbeddedRecords ==
    << [name |-> <<"B","e","e">>, category |-> "electric", embedding |-> <<1, 0>>],
       [name |-> <<"C","e","e">>, category |-> "credit", embedding |-> <<0, 1>>],
       [name |-> <<"D","e","e">>, category |-> "other", embedding |-> <<1, 1>>],
       [name |-> <<"E","l","m">>, category |-> "electric", embedding |-> <<2, 0>>],
       [name |-> <<"F","i","r">>, category |-> "credit", embedding |-> <<0, 2>>],
       [name |-> <<"G","u","m">>, category |-> "food", embedding |-> <<2, 1>>],
       [name |-> <<"H","o","p">>, category |-> "food", embedding |-> <<1, 2>>] >>

\* entries of candidates.json
SearchCandidates ==
    {[name |-> <<"A","l","f","a">>],
     [name |-> <<"A","l","f","a">>, website |-> None,
      location |-> <<"A","m","e","s">>],
     [name |-> <<"A","l","f","a">>, website |-> <<>>, source |-> "ncua"],
     [name |-> <<"A","l","f","a">>, website |-> URL_A,
      location |-> <<"A","m","e","s">>, source |-> "web_search"]}

\* fetch_and_extract: None after an exception or when trafilatura extracts
\* nothing, else the text of the page
FetchOutcomes ==
    {None, <<>>, <<"a"," ","c","o","o","p">>, <<"a"," ","s","h","o","p">>}

\* the other scripts are not running
NoRun ==
    /\ labeled_file = store(<<original(1, <<"D","e","e">>, "credit", URL_D, "ncua")>>, <<>>)
    /\ similarity_file = <<>>
    /\ sos_file = <<>>
    /\ index_html = [marker |-> TRUE, entries |-> <<>>]
    /\ screenshots = {}
    /\ NoSession
    /\ runs = 0
    /\ issued_ids = verified_ids(labeled_file)

InitSearch ==
    /\ NoRun
    /\ dc_candidate = [name |-> <<>>]
    /\ dc_result = ""
    /\ NoNormalize
    /\ NoFetch
    /\ NoRoundTrip
    /\ NoBatch
    /\ \E n \in 0..Min2(MaxVerified, Len(EmbeddedRecords)) :
          /\ self_embeddings = [k \in 1..n |-> EmbeddedRecords[k].embedding]
          /\ self_cooperatives =
                 [k \in 1..n |-> [name |-> EmbeddedRecords[k].name,
                                  category |-> EmbeddedRecords[k].category]]
    /\ sc_candidate \in SearchCandidates
    /\ web_content \in FetchOutcomes
    /\ Truthy(web_content) => Truthy(Get(sc_candidate, "website", None))
    /\ sc_result = <<>>

\* score_candidate(sc_candidate); np.argsort is called only for a candidate
\* with content, and with no embeddings np.max then raises ValueError and
\* there is no result
ScoreCandidate ==
    /\ IF ~(Truthy(Get(sc_candidate, "website", None)) /\ Truthy(web_content))
       THEN sc_result' = <<score_candidate(self_embeddings, self_cooperatives,
                                           sc_candidate, web_content, <<>>)>>
       ELSE IF self_embeddings = <<>>
       THEN sc_result' = <<>>
       ELSE \E order \in ArgsortOutcomes(
                    np_dot(self_embeddings,
                           encode(create_embedding_text(sc_candidate.name,
                               Get(sc_candidate, "location", <<"I","o","w","a">>),
                               web_content)))) :
                sc_result' = <<score_candidate(self_embeddings, self_cooperatives,
                                               sc_candidate, web_content, order)>>
    /\ UNCHANGED <<labeled_file, similarity_file, sos_file, site_vars, pc,
                   session_vars, runs, issued_ids, category_vars,
                   normalize_vars, fetch_vars, roundtrip_vars, batch_vars,
                   self_embeddings, self_cooperatives, sc_candidate,
                   web_content>>

\* the verified records stored in another order: rows j and k change places
\* in both arrays
StoredInOtherOrder(j, k) ==
    /\ self_embeddings' = [self_embeddings EXCEPT ![j] = self_embeddings[k],
                                                  ![k] = self_embeddings[j]]
    /\ self_cooperatives' = [self_cooperatives EXCEPT ![j] = self_cooperatives[k],
                                                      ![k] = self_cooperatives[j]]
    /\ UNCHANGED <<labeled_file, similarity_file, sos_file, site_vars, pc,
                   session_vars, runs, issued_ids, category_vars,
                   normalize_vars, fetch_vars, roundtrip_vars, batch_vars,
                   sc_candidate, web_content, sc_result>>

\* neighbouring rows change places: every order is reached this way
Reorder ==
    \E j \in DOMAIN self_embeddings :
        j + 1 \in DOMAIN self_embeddings /\ StoredInOtherOrder(j, j + 1)

NextSearch == ScoreCandidate \/ Reorder

SpecSearch == InitSearch /\ [][NextSearch]_vars

-----------------------------------------------------------------------------
(* Properties of the similarity search *)

\* the candidate has a website and the fetch returned text
has_content ==
    Truthy(Get(sc_candidate, "website", None)) /\ Truthy(web_content)

\* score_candidate returned a result with similarity detail
is_scored(result) ==
    result # <<>> /\ "similarity_scores" \in DOMAIN result[1]

\* the similarities of the candidate to the verified records as stored now
sc_similarities ==
    np_dot(self_embeddings,
           encode(create_embedding_text(sc_candidate.name,
                      Get(sc_candidate, "location", <<"I","o","w","a">>),
                      web_content)))

\* the positions of a in the order: greater value first, of equal values
\* the lower position first; the first k of them
RECURSIVE first_seen_order(_, _, _)
first_seen_order(a, left, k) ==
    IF left = {} \/ k = 0 THEN <<>>
    ELSE LET best == CHOOSE j \in left :
                        \A m \in left : a[m] < a[j] \/ (a[m] = a[j] /\ j <= m)
         IN  <<best>> \o first_seen_order(a, left \ {best}, k - 1)

\* the k largest values of a, greatest first
largest(a, k) ==
    LET order == first_seen_order(a, DOMAIN a, k)
    IN  [n \in DOMAIN order |-> a[order[n]]]

occurrences(s, v) == Cardinality({n \in DOMAIN s : s[n] = v})

\* C14: a candidate with no website, or whose content could not be fetched
\* or extracted, gets cooperative_score exactly 0.0, content_extracted false
\* and null similarity_scores.
C14_NoContentScoresZero ==
    (sc_result # <<>> /\ ~has_content) =>
        /\ sc_result[1].cooperative_score = ZERO
        /\ sc_result[1].content_extracted = FALSE
        /\ "similarity_scores" \notin DOMAIN sc_result[1]

\* C14 witness: the candidate has a website, the fetch failed, and it was
\* scored against six embeddings
C14_Witness ==
    /\ sc_result # <<>>
    /\ Truthy(Get(sc_candidate, "website", None))
    /\ web_content = None
    /\ Len(self_embeddings) = 6

\* C15: with N >= 1 embeddings, top_k_mean is the mean of the min(5, N)
\* largest similarities, most_similar has exactly min(5, N) entries holding
\* those similarities, and cooperative_score is top_k_mean.
C15_TopKMean ==
    is_scored(sc_result) =>
        LET scores == sc_result[1].similarity_scores
            k == Min2(TOP_K, Len(self_embeddings))
            top == largest(sc_similarities, k)
            listed == [n \in DOMAIN scores.most_similar |->
                          scores.most_similar[n].similarity]
        IN  /\ Len(self_embeddings) >= 1
            /\ scores.top_k_mean = <<SumSeq(top), k>>
            /\ Len(scores.most_similar) = k
            /\ \A v \in Range(top) \cup Range(listed) :
                  occurrences(listed, v) = occurrences(top, v)
            /\ sc_result[1].cooperative_score = scores.top_k_mean

\* C15 witness: six embeddings, five of them listed, the least similar left
\* out
C15_Witness ==
    /\ is_scored(sc_result)
    /\ Len(self_embeddings) = 6
    /\ Len(sc_result[1].similarity_scores.most_similar) = 5
    /\ \E k \in DOMAIN sc_similarities :
          \A n \in 1..5 :
              sc_similarities[k]
                  < sc_result[1].similarity_scores.most_similar[n].similarity

\* C16: scoring the candidate again after the verified records were stored
\* in another order gives the same top_k_mean.
C16_OrderInvariant ==
    [][(is_scored(sc_result) /\ is_scored(sc_result')) =>
          same_number(sc_result'[1].similarity_scores.top_k_mean,
                      sc_result[1].similarity_scores.top_k_mean)]_vars

\* C16 witness: six records stored in an order other than the first one,
\* and the candidate scored
C16_Witness ==
    /\ is_scored(sc_result)
    /\ Len(self_cooperatives) = 6
    /\ self_cooperatives[1].name = EmbeddedRecords[6].name
    /\ self_cooperatives[6].name = EmbeddedRecords[1].name

\* C17: most_similar is in descending similarity order and, among records
\* of equal similarity, the one stored earlier comes first, both in which
\* records are listed and in their order.
C17_FirstSeenWins ==
    [][(sc_result' # sc_result /\ is_scored(sc_result')) =>
          LET order == first_seen_order(sc_similarities, DOMAIN sc_similarities,
                                        Min2(TOP_K, Len(self_embeddings)))
          IN  sc_result'[1].similarity_scores.most_similar
                  = [n \in DOMAIN order |->
                        [name |-> self_cooperatives[order[n]].name,
                         category |-> self_cooperatives[order[n]].category,
                         similarity |-> sc_similarities[order[n]]]]]_vars


-----------------------------------------------------------------------------
(* fetch_candidates.py and generate_candidates.py: the normalizers *)

\* s.replace(old, ""): the occurrences of old, found from the left, removed
RECURSIVE replace(_, _)
replace(s, old) ==
    IF Len(s) < Len(old) THEN s
    ELSE IF SubSeq(s, 1, Len(old)) = old
    THEN replace(SubSeq(s, Len(old) + 1, Len(s)), old)
    ELSE <<Head(s)>> \o replace(Tail(s), old)

\* the length of the word s starts with
RECURSIVE word_length(_)
word_length(s) ==
    IF s = <<>> \/ Head(s) \in Whitespace THEN 0 ELSE 1 + word_length(Tail(s))

\* s.split(): the words between runs of whitespace
RECURSIVE split(_)
split(s) ==
    LET rest == lstrip(s)
        n == word_length(rest)
    IN  IF rest = <<>> THEN <<>>
        ELSE <<SubSeq(rest, 1, n)>> \o split(SubSeq(rest, n + 1, Len(rest)))

\* sep.join(words)
RECURSIVE join(_, _)
join(sep, words) ==
    IF words = <<>> THEN <<>>
    ELSE IF Len(words) = 1 THEN words[1]
    ELSE words[1] \o sep \o join(sep, Tail(words))

\* the suffixes normalize_name removes, in the order of its loop
SUFFIXES ==
    <<<<","," ","i","n","c">>,
      <<" ","i","n","c">>,
      <<","," ","l","l","c">>,
      <<" ","l","l","c">>,
      <<","," ","l","t","d">>,
      <<" ","l","t","d">>,
      <<".">>>>

\* for suffix in suffixes: name = name.replace(suffix, "")
RECURSIVE remove_suffixes(_, _)
remove_suffixes(name, suffixes) ==
    IF suffixes = <<>> THEN name
    ELSE remove_suffixes(replace(name, Head(suffixes)), Tail(suffixes))

\* fetch_candidates.normalize_name
normalize_name(name) ==
    join(<<" ">>, split(remove_suffixes(strip(lower(name)), SUFFIXES)))

\* generate_candidates.normalize_name: the same without the strip()
gc_normalize_name(name) ==
    join(<<" ">>, split(remove_suffixes(lower(name), SUFFIXES)))

Letters == DOMAIN UpperToLower \cup Range(UpperToLower)

\* urllib.parse.scheme_chars
scheme_chars ==
    Letters \cup {"0", "1", "2", "3", "4", "5", "6", "7", "8", "9", "+", "-", "."}

\* the first position of s that holds one of chars, 0 when there is none
RECURSIVE find_any(_, _)
find_any(s, chars) ==
    IF s = <<>> THEN 0
    ELSE IF Head(s) \in chars THEN 1
    ELSE LET k == find_any(Tail(s), chars) IN IF k = 0 THEN 0 ELSE k + 1

\* urlsplit: what follows the scheme; a scheme is a letter and then
\* scheme_chars up to the first ":"
after_scheme(url) ==
    LET colon == find_any(url, {":"})
    IN  IF /\ colon > 1
           /\ url[1] \in Letters
           /\ \A k \in 1..(colon - 1) : url[k] \in scheme_chars
        THEN SubSeq(url, colon + 1, Len(url))
        ELSE url

\* urlparse(url).netloc: what follows "//" up to the first of "/", "?", "#";
\* nothing when the rest does not begin with "//"
netloc(url) ==
    LET rest == after_scheme(url)
    IN  IF Len(rest) >= 2 /\ SubSeq(rest, 1, 2) = <<"/", "/">>
        THEN LET host == SubSeq(rest, 3, Len(rest))
                 delim == find_any(host, {"/", "?", "#"})
             IN  IF delim = 0 THEN host ELSE SubSeq(host, 1, delim - 1)
        ELSE <<>>

\* urlsplit raises ValueError("Invalid IPv6 URL") for a bracket without
\* its partner
invalid_netloc(host) ==
    LET open == \E k \in DOMAIN host : host[k] = "["
        close == \E k \in DOMAIN host : host[k] = "]"
    IN  open # close

\* extract_domain, the same in both scripts; the bare except turns the
\* ValueError of urlsplit and the TypeError for None into None
extract_domain(url) ==
    IF url = None THEN None
    ELSE IF invalid_netloc(netloc(url)) THEN None
    ELSE LET domain == lower(netloc(url))
         IN  IF Len(domain) >= 4 /\ SubSeq(domain, 1, 4) = <<"w", "w", "w", ".">>
             THEN SubSeq(domain, 5, Len(domain))
             ELSE domain

(* The normalizers on their own *)

MaxTokens == 3

\* the pieces the names are put together from
NameTokens ==
    {<<"A","c","m","e">>,
     <<","," ">>,
     <<"L",".","L",".","C",".">>,
     <<" ","I","n","c">>,
     <<" ">>,
     <<"\t">>,
     <<".">>,
     <<"L","L","C">>}

RECURSIVE concatenations(_)
concatenations(n) ==
    IF n = 0 THEN {<<>>}
    ELSE concatenations(n - 1)
         \cup {head \o tok : head \in concatenations(n - 1), tok \in NameTokens}

Names == concatenations(MaxTokens)

Urls ==
    {None,
     <<>>,
     <<"h","t","t","p","s",":","/","/","w","w","w",".","n","e","w","p","i",".","c","o","o","p","/">>,
     <<"n","e","w","p","i",".","c","o","o","p">>,
     <<"h","t","t","p",":","/","/","a",".","i","o">>,
     <<"w","w","w",".","a",".","i","o">>,
     <<"h","t","t","p",":","/","/","[">>,
     <<"H","T","T","P",":","/","/","W","W","W",".","A",".","I","O","/","x","?","y">>,
     <<"m","a","i","l","t","o",":","a","@","a",".","i","o">>}

InitNormalize ==
    /\ NoRun
    /\ dc_candidate = [name |-> <<>>]
    /\ dc_result = ""
    /\ NoSearch
    /\ NoFetch
    /\ NoRoundTrip
    /\ NoBatch
    /\ nn_name \in Names
    /\ nn_url \in Urls
    /\ nn_result = <<>>

\* each normalizer applied to its argument, and then to its own result
Normalize ==
    /\ nn_result = <<>>
    /\ nn_result' =
           <<[name |-> normalize_name(nn_name),
              name_again |-> normalize_name(normalize_name(nn_name)),
              gc_name |-> gc_normalize_name(nn_name),
              gc_name_again |-> gc_normalize_name(gc_normalize_name(nn_name)),
              domain |-> extract_domain(nn_url),
              domain_again |-> extract_domain(extract_domain(nn_url))]>>
    /\ UNCHANGED <<labeled_file, similarity_file, sos_file, site_vars, pc,
                   session_vars, runs, issued_ids, category_vars, search_vars,
                   nn_name, nn_url, fetch_vars, roundtrip_vars, batch_vars>>

NextNormalize == Normalize

SpecNormalize == InitNormalize /\ [][NextNormalize]_vars

(* Properties of the normalizers *)

\* C18 (as the specification states it): normalization is idempotent, a
\* second normalize_name leaves a normalized name as it is and a second
\* extract_domain leaves an extracted domain as it is
C18_Idempotent ==
    nn_result # <<>> =>
        /\ nn_result[1].name_again = nn_result[1].name
        /\ nn_result[1].gc_name_again = nn_result[1].gc_name
        /\ nn_result[1].domain_again = nn_result[1].domain


-----------------------------------------------------------------------------
(* fetch_candidates.py: the fetched lists and their deduplication *)

\* get_verified_identifiers: one set that holds the normalized names and
\* the domains of the verified records
get_verified_identifiers(labeled) ==
    LET verified == labeled.verified_cooperatives
    IN  {normalize_name(verified[k].name) : k \in DOMAIN verified}
        \cup {extract_domain(verified[k].website) :
                 k \in {n \in DOMAIN verified :
                           /\ Truthy(Get(verified[n], "website", None))
                           /\ Truthy(extract_domain(verified[n].website))}}

\* extract_domain(c.get('website', '')) if c.get('website') else None
candidate_domain(c) ==
    IF Truthy(Get(c, "website", None)) THEN extract_domain(c.website) ELSE None

\* the loop of deduplicate_candidates from a position on, `seen` holding
\* the normalized names kept so far
RECURSIVE deduplicate_from(_, _, _)
deduplicate_from(cands, verified_identifiers, seen) ==
    IF cands = <<>> THEN <<>>
    ELSE LET c == Head(cands)
             name_norm == normalize_name(c.name)
             domain == candidate_domain(c)
         IN  IF name_norm \in verified_identifiers
             THEN deduplicate_from(Tail(cands), verified_identifiers, seen)
             ELSE IF Truthy(domain) /\ domain \in verified_identifiers
             THEN deduplicate_from(Tail(cands), verified_identifiers, seen)
             ELSE IF name_norm \in seen
             THEN deduplicate_from(Tail(cands), verified_identifiers, seen)
             ELSE <<c>> \o deduplicate_from(Tail(cands), verified_identifiers,
                                            seen \cup {name_norm})

deduplicate_candidates(cands, verified_identifiers) ==
    deduplicate_from(cands, verified_identifiers, {})

MaxFetched == 3

fetched(name, website, location, source) ==
    [name |-> name, website |-> website, location |-> location, source |-> source]

\* a row of the NCUA file as fetch_ncua_credit_unions returns it
ncua_candidate(name, number) ==
    [name |-> name, website |-> None, location |-> <<"I","o","w","a">>,
     source |-> "ncua", ncua_number |-> number, needs_website |-> TRUE]

URL_CBPOWER == <<"h","t","t","p","s",":","/","/","w","w","w",".","c","b","p","o","w","e","r",".","c","o","o","p","/">>

\* get_iaec_electric_coops: three of the entries of its list, in its order
IAEC ==
    <<fetched(<<"A","c","c","e","s","s"," ","E","n","e","r","g","y"," ","C","o","o","p","e","r","a","t","i","v","e">>,
              <<"h","t","t","p","s",":","/","/","w","w","w",".","a","c","c","e","s","s","e","n","e","r","g","y","c","o","o","p",".","c","o","m","/">>,
              <<"M","t","."," ","P","l","e","a","s","a","n","t",","," ","I","A">>, "iaec"),
      fetched(<<"B","o","o","n","e"," ","V","a","l","l","e","y"," ","E","l","e","c","t","r","i","c"," ","C","o","o","p","e","r","a","t","i","v","e">>,
              URL_CBPOWER, <<"R","e","n","w","i","c","k",","," ","I","A">>, "iaec"),
      fetched(<<"C","o","r","n"," ","B","e","l","t"," ","P","o","w","e","r"," ","C","o","o","p","e","r","a","t","i","v","e">>,
              URL_CBPOWER, <<"H","u","m","b","o","l","d","t",","," ","I","A">>, "iaec")>>

\* search_additional_cooperatives: two of the entries of its list
ADDITIONAL ==
    <<fetched(<<"V","e","r","i","d","i","a","n"," ","C","r","e","d","i","t"," ","U","n","i","o","n">>,
              <<"h","t","t","p","s",":","/","/","w","w","w",".","v","e","r","i","d","i","a","n","c","u",".","o","r","g","/">>,
              <<"W","a","t","e","r","l","o","o",","," ","I","A">>, "web_search"),
      fetched(<<"N","e","w"," ","P","i","o","n","e","e","r"," ","F","o","o","d"," ","C","o","-","o","p">>,
              <<"h","t","t","p","s",":","/","/","w","w","w",".","n","e","w","p","i",".","c","o","o","p","/">>,
              <<"I","o","w","a"," ","C","i","t","y",","," ","I","A">>, "web_search")>>

\* rows the NCUA file may hold
NcuaPool ==
    { ncua_candidate(<<"V","e","r","i","d","i","a","n"," ","C","r","e","d","i","t"," ","U","n","i","o","n">>, 1),
      ncua_candidate(<<"A","s","c","e","n","t","r","a"," ","C","r","e","d","i","t"," ","U","n","i","o","n">>, 2),
      ncua_candidate(<<"A","S","C","E","N","T","R","A"," ","C","R","E","D","I","T"," ","U","N","I","O","N",","," ","I","N","C",".">>, 3),
      ncua_candidate(<<"D","e","e"," ","C","r","e","d","i","t"," ","U","n","i","o","n">>, 4) }

RECURSIVE NcuaLists(_)
NcuaLists(n) ==
    IF n = 0 THEN {<<>>}
    ELSE NcuaLists(n - 1)
         \cup {Append(rows, c) : rows \in NcuaLists(n - 1), c \in NcuaPool}

\* labeled_data.json when fetch_candidates.py runs
FetchStores ==
    LabeledStores
    \cup { store(<<original(7, <<"C","o","r","n"," ","B","e","l","t"," ","P","o","w","e","r"," ","C","o","o","p","e","r","a","t","i","v","e">>,
                            "electric", <<"h","t","t","p","s",":","/","/","w","w","w",".","c","b","p","o","w","e","r",".","c","o","o","p">>, "iaec"),
                   original(8, <<"D","e","e"," ","C","r","e","d","i","t"," ","U","n","i","o","n">>, "credit", None, "ncua")>>,
                 <<>>) }

InitFetch ==
    /\ labeled_file \in FetchStores
    /\ similarity_file = <<>>
    /\ sos_file = <<>>
    /\ index_html = [marker |-> TRUE, entries |-> <<>>]
    /\ screenshots = {}
    /\ NoSession
    /\ runs = 0
    /\ issued_ids = verified_ids(labeled_file)
    /\ dc_candidate = [name |-> <<>>]
    /\ dc_result = ""
    /\ NoSearch
    /\ NoNormalize
    /\ NoBatch
    /\ NoRoundTrip
    /\ \E ncua_candidates \in NcuaLists(MaxFetched) :
          /\ \A j, k \in DOMAIN ncua_candidates :
                 j # k => ncua_candidates[j] # ncua_candidates[k]
          /\ all_candidates = ncua_candidates \o IAEC \o ADDITIONAL
    /\ unique_candidates = <<>>

\* main: the three lists deduplicated against the verified records
FetchCandidates ==
    /\ unique_candidates = <<>>
    /\ unique_candidates' =
           <<deduplicate_candidates(all_candidates,
                                    get_verified_identifiers(labeled_file))>>
    /\ UNCHANGED <<labeled_file, similarity_file, sos_file, site_vars, pc,
                   session_vars, runs, issued_ids, category_vars, search_vars,
                   normalize_vars, all_candidates, batch_vars, roundtrip_vars>>

NextFetch == FetchCandidates

SpecFetch == InitFetch /\ [][NextFetch]_vars

(* Properties of the deduplication *)

\* two records name the same entity: equal normalized names, or equal
\* normalized domains where both have one
same_entity(a, b) ==
    \/ normalize_name(a.name) = normalize_name(b.name)
    \/ /\ Truthy(candidate_domain(a))
       /\ Truthy(candidate_domain(b))
       /\ candidate_domain(a) = candidate_domain(b)

\* C19 (as the specification states it): no candidate returned by
\* deduplicate_candidates is the same entity as a verified cooperative,
\* and no two returned candidates are the same entity
C19_DuplicateFree ==
    unique_candidates # <<>> =>
        LET returned == unique_candidates[1]
            verified == labeled_file.verified_cooperatives
        IN  /\ \A k \in DOMAIN returned : \A v \in DOMAIN verified :
                   ~same_entity(returned[k], verified[v])
            /\ \A j, k \in DOMAIN returned :
                   j # k => ~same_entity(returned[j], returned[k])

-----------------------------------------------------------------------------
(* batch_import_all.py *)

\* str.rstrip('/')
RECURSIVE rstrip_slash(_)
rstrip_slash(s) ==
    IF s # <<>> /\ s[Len(s)] = "/"
    THEN rstrip_slash(SubSeq(s, 1, Len(s) - 1)) ELSE s

\* get_existing_websites: every non-empty `website: '...'` of the page,
\* lower-cased and without trailing slashes; the page shows a missing
\* website as the text None
get_existing_websites(html) ==
    LET text(k) == IF html.entries[k].website = None
                   THEN <<"N","o","n","e">> ELSE html.entries[k].website
    IN  {rstrip_slash(lower(text(k))) :
            k \in {n \in DOMAIN html.entries : text(n) # <<>>}}

\* name.replace("'", "\\'").replace('"', '\\"')
RECURSIVE escape_both_quotes(_)
escape_both_quotes(name) ==
    IF name = <<>> THEN <<>>
    ELSE IF Head(name) \in {"'", "\""}
         THEN <<"\\", Head(name)>> \o escape_both_quotes(Tail(name))
         ELSE <<Head(name)>> \o escape_both_quotes(Tail(name))

all_generate_coop_entry(coop) ==
    [id |-> coop.id, name |-> escape_both_quotes(coop.name),
     category |-> coop.category, website |-> coop.website]

\* update_index_html of batch_import_all.py: the same ValueError
all_update_index_html_raises(html) == ~html.marker

\* update_index_html of batch_import_all.py, when the array is found
all_update_index_html(html, cooperatives) ==
    [html EXCEPT !.entries =
        @ \o [k \in DOMAIN cooperatives |->
                 all_generate_coop_entry(cooperatives[k])]]

\* the filter of main(): the entries with a website the page does not have
new_cooperatives(all_coops, existing_websites) ==
    LET is_new(coop) ==
            LET website == rstrip_slash(lower(Get(coop, "website", <<>>)))
            IN  website # <<>> /\ website \notin existing_websites
    IN  SelectSeq(all_coops, is_new)

\* new_coops[:args.limit] when a limit other than 0 is given
limited(new_coops, limit_flag) ==
    IF limit_flag # <<>> /\ limit_flag[1] # 0
    THEN SubSeq(new_coops, 1, Min2(limit_flag[1], Len(new_coops)))
    ELSE new_coops

\* coop['id'] = current_max_id + i + 1
assign_ids(new_coops, current_max_id) ==
    [k \in DOMAIN new_coops |->
        ("id" :> current_max_id + k) @@ new_coops[k]]

\* variant: only the records marked as exported stay in the list
mark_exported_all_only(verified, exported_websites) ==
    LET marked(coop) ==
            rstrip_slash(lower(Get(coop, "website", <<>>))) \in exported_websites
    IN  [k \in DOMAIN SelectSeq(verified, marked) |->
            ("exported_to_website" :> TRUE) @@ ("export_date" :> "now")
                @@ SelectSeq(verified, marked)[k]]

\* the loop over labeled_data['verified_cooperatives'] at the end of main()
mark_exported_all(verified, exported_websites) ==
    [k \in DOMAIN verified |->
        IF rstrip_slash(lower(Get(verified[k], "website", <<>>)))
               \in exported_websites
        THEN ("exported_to_website" :> TRUE) @@ ("export_date" :> "now")
                @@ verified[k]
        ELSE verified[k]]

MaxListed == 2

listed(name, category, website) ==
    [name |-> name, category |-> category, website |-> website]

\* entries verified_with_websites.json may hold; the last has no website
ListedPool ==
    { listed(<<"A","l","f","a">>, "agricultural", URL_A),
      listed(<<"A","l","f","a"," ","C","o">>, "agricultural", URL_A_VARIANT),
      listed(<<"B","e","e">>, "electric", <<"H","T","T","P",":","/","/","B",".","i","o","/">>),
      [name |-> <<"C","e","e">>, category |-> "credit"] }

\* verified_with_websites.json: its 'cooperatives'
ListedLists ==
    {s \in UNION {[1..n -> ListedPool] : n \in 0..MaxListed} :
        \A j, k \in DOMAIN s : j # k => s[j] # s[k]}

LimitFlags == {<<>>, <<1>>}

\* main() of batch_import_all.py; ok is the set of positions of new_coops
\* whose screenshot succeeds. `.lower()` of a website that is None raises
\* AttributeError: in the filter before anything is written, in the last
\* loop after the page and the screenshots are written and before
\* labeled_data.json is
BatchImportAll(all_coops, dry_run, limit_flag, confirm, ok) ==
    /\ pc # "prompt"
    /\ runs < MaxRuns
    /\ runs' = runs + 1
    /\ LET new_coops ==
               assign_ids(limited(new_cooperatives(all_coops,
                                      get_existing_websites(index_html)),
                                  limit_flag),
                          get_current_max_id(index_html))
           took(coop) == \E k \in ok : new_coops[k] = coop
           successful == SelectSeq(new_coops, took)
           exported_websites ==
               {rstrip_slash(lower(successful[n].website)) :
                   n \in DOMAIN successful}
           verified == labeled_file.verified_cooperatives
       IN  /\ ok \subseteq DOMAIN new_coops
           /\ IF new_coops = <<>> \/ dry_run \/ ~all_confirmed(confirm)
              THEN /\ ok = {}
                   /\ UNCHANGED <<labeled_file, site_vars>>
              ELSE /\ screenshots' = screenshots
                        \cup {successful[n].id : n \in DOMAIN successful}
                   /\ IF \/ successful = <<>>
                         \/ all_update_index_html_raises(index_html)
                      THEN UNCHANGED <<labeled_file, index_html>>
                      ELSE /\ index_html' =
                                  all_update_index_html(index_html, successful)
                           /\ IF \E k \in DOMAIN verified :
                                     Get(verified[k], "website", <<>>) = None
                              THEN UNCHANGED labeled_file
                              ELSE labeled_file' =
                                     [labeled_file EXCEPT
                                         !.verified_cooperatives =
                                             mark_exported_all(verified,
                                                 exported_websites),
                                         !.metadata = [last_updated |-> "now"]]
    /\ issued_ids' = issued_ids \cup verified_ids(labeled_file')
    /\ UNCHANGED <<similarity_file, sos_file, pc, session_vars, function_vars>>

ExportAll ==
    \E all_coops \in ListedLists, dry_run \in BOOLEAN,
       limit_flag \in LimitFlags, confirm \in Confirmations,
       ok \in SUBSET (1..MaxListed) :
        BatchImportAll(all_coops, dry_run, limit_flag, confirm, ok)

\* every script that writes labeled_data.json, one run after another
InitWriters ==
    /\ labeled_file \in RegistryStores
    /\ similarity_file = SubSeq(RankedResults, 1, MaxResults)
    /\ sos_file = <<sos_candidate(RV_COOP, "DOMESTIC LIMITED LIABILITY", "other"),
                    sos_candidate(ENT_CREDIT_UNION, "DOMESTIC NONPROFIT", "credit")>>
    /\ index_html = [marker |-> TRUE, entries |-> site_entries(labeled_file)]
    /\ screenshots = {}
    /\ NoSession
    /\ runs = 0
    /\ issued_ids = verified_ids(labeled_file)
    /\ NoCall

NextWriters ==
    \/ Verify
    \/ Review
    \/ ImportSos
    \/ RestoreUnclear
    \/ UpdateAllWebsites
    \/ Export
    \/ ExportAll

SpecWriters == InitWriters /\ [][NextWriters]_vars

(* Properties of the writers of labeled_data.json *)

\* the fields a later run may set again on a stored record
RewrittenFields == {"id", "website", "exported_to_website", "export_date"}

\* every record of `before` has its record at the same position of `after`
kept(before, after) ==
    /\ Len(after) >= Len(before)
    /\ \A k \in DOMAIN before :
          /\ DOMAIN before[k] \subseteq DOMAIN after[k]
          /\ \A f \in DOMAIN before[k] \ RewrittenFields :
                 after[k][f] = before[k][f]

-----------------------------------------------------------------------------
(* The publishing runs: batch_import.py and batch_import_all.py *)

\* the store after a session in which every candidate shown was accepted
\* under the category proposed
RECURSIVE accept_all(_, _)
accept_all(ld, queue) ==
    IF queue = <<>> THEN ld
    ELSE accept_all(decide(ld, Head(queue), "y",
                           determine_category(Head(queue))),
                    Tail(queue))

\* labeled_data.json after one review session over RankedResults with
\* --num n, all answers y; without a candidate main() saves nothing
reviewed_store(ld, n) ==
    LET queue == get_unreviewed_candidates(ld, RankedResults, DefaultMinScore)
        accepted == SubSeq(queue, 1, Min2(n, Len(queue)))
    IN  IF accepted = <<>> THEN ld
        ELSE update_stats(accept_all(ld, accepted), Len(accepted), 0)

PublishStores ==
    {reviewed_store(ld, n) : ld \in LabeledStores, n \in 0..MaxResults}

InitPublish ==
    /\ labeled_file \in PublishStores
    /\ similarity_file = SubSeq(RankedResults, 1, MaxResults)
    /\ sos_file = <<>>
    /\ \E marker \in BOOLEAN :
          index_html = [marker |-> marker, entries |-> site_entries(labeled_file)]
    /\ screenshots = {}
    /\ NoSession
    /\ runs = 0
    /\ issued_ids = verified_ids(labeled_file)
    /\ NoCall

NextPublish == Export \/ ExportAll

SpecPublish == InitPublish /\ [][NextPublish]_vars

(* Properties of the publishing runs *)

\* the positions of the verified records marked as exported
exported_positions(ld) ==
    {k \in DOMAIN ld.verified_cooperatives :
        Get(ld.verified_cooperatives[k], "exported_to_website", FALSE)}

\* C21: without the array in index.html update_index_html raises, the page
\* stays as it is and the run marks no cooperative as exported
C21_MissingArrayIsFatal ==
    [][~index_html.marker =>
          /\ update_index_html_raises(index_html)
          /\ all_update_index_html_raises(index_html)
          /\ index_html' = index_html
          /\ exported_positions(labeled_file') = exported_positions(labeled_file)
          /\ labeled_file' = labeled_file]_vars

\* a run took screenshots and then reached a page without the array
C21_Witness ==
    /\ ~index_html.marker
    /\ screenshots # {}

\* C22: a run of batch_import or batch_import_all with --dry-run, or with an
\* answer other than y or Y at its prompt, leaves index.html,
\* labeled_data.json (the ids with it) and the screenshots as they are: a
\* step that changes one of them is no such run
C22_UnconfirmedRunWritesNothing ==
    [][\/ UNCHANGED <<index_html, labeled_file, screenshots>>
       \/ /\ \A dry_run \in BOOLEAN, min_score_flag \in BatchMinScoreFlags,
                confirm \in Confirmations,
                ok \in SUBSET (DOMAIN labeled_file.verified_cooperatives) :
                 dry_run \/ confirm \notin {<<"y">>, <<"Y">>}
                 => ~BatchImport(dry_run, min_score_flag, confirm, ok)
          /\ \A all_coops \in ListedLists, dry_run \in BOOLEAN,
                limit_flag \in LimitFlags, confirm \in Confirmations,
                ok \in SUBSET (1..MaxListed) :
                 dry_run \/ confirm \notin {<<"y">>, <<"Y">>}
                 => ~BatchImportAll(all_coops, dry_run, limit_flag, confirm, ok)]_vars

\* a run has ended with records still to export and nothing written
C22_Witness ==
    /\ runs > 0
    /\ get_exportable_cooperatives(labeled_file, BatchDefaultMinScore) # <<>>
    /\ index_html.entries = site_entries(labeled_file)
    /\ screenshots = {}
    /\ exported_positions(labeled_file) = {}

-----------------------------------------------------------------------------
(* similarity_search.py: score_candidates over a list of candidates *)

MaxBatch == 3

\* what a request comes to: requests.get or raise_for_status raises, or
\* trafilatura.extract returns None or a text
response(raised, text) == [raised |-> raised, text |-> text]

Responses ==
    {response("ConnectionError", None),
     response("Timeout", None),
     response("HTTPError", None),
     response("", None),
     response("", <<>>),
     response("", <<"a"," ","c","o","o","p">>),
     response("", <<"a"," ","s","h","o","p">>)}

\* variant: the exception of the request leaves the function
fetch_and_extract_uncaught(r) ==
    [raised |-> r.raised,
     content |-> IF r.raised # "" THEN None ELSE r.text]

\* fetch_and_extract: `except Exception` turns every failure into None
fetch_and_extract(r) ==
    [raised |-> "",
     content |-> IF r.raised # "" THEN None ELSE r.text]

\* a >= b for fractions <<numerator, denominator>> with denominators > 0
at_least(a, b) == a[1] * b[2] >= b[1] * a[2]

\* results.sort(key=cooperative_score, reverse=True): stable, so of equal
\* scores the one earlier in the list stays first
RECURSIVE insert_by_score(_, _)
insert_by_score(sorted, r) ==
    IF sorted = <<>> THEN <<r>>
    ELSE IF at_least(Head(sorted).cooperative_score, r.cooperative_score)
    THEN <<Head(sorted)>> \o insert_by_score(Tail(sorted), r)
    ELSE <<r>> \o sorted

RECURSIVE sort_by_score(_)
sort_by_score(results) ==
    IF results = <<>> THEN <<>>
    ELSE insert_by_score(sort_by_score(SubSeq(results, 1, Len(results) - 1)),
                         results[Len(results)])

\* entries of candidates.json
BatchPool ==
    {[name |-> <<"A","l","f","a">>, website |-> URL_A,
      location |-> <<"A","m","e","s">>, source |-> "web_search"],
     [name |-> <<"B","e","e">>, website |-> URL_B, source |-> "iaec"],
     [name |-> <<"C","e","e">>, website |-> None, source |-> "ncua"],
     [name |-> <<"D","e","e">>, website |-> URL_D]}

BatchLists ==
    {s \in UNION {[1..n -> BatchPool] : n \in 0..MaxBatch} :
        \A j, k \in DOMAIN s : j # k => s[j] # s[k]}

\* main() after search.load(): generate_embeddings.py writes the pickle
\* only when it has a record to embed
InitBatch ==
    /\ NoRun
    /\ dc_candidate = [name |-> <<>>]
    /\ dc_result = ""
    /\ self_embeddings = [k \in 1..2 |-> EmbeddedRecords[k].embedding]
    /\ self_cooperatives =
           [k \in 1..2 |-> [name |-> EmbeddedRecords[k].name,
                            category |-> EmbeddedRecords[k].category]]
    /\ sc_candidate = [name |-> <<>>]
    /\ web_content = None
    /\ sc_result = <<>>
    /\ NoNormalize
    /\ NoFetch
    /\ NoRoundTrip
    /\ sb_candidates \in BatchLists
    /\ sb_responses = <<>>
    /\ sb_results = <<>>
    /\ sb_returned = <<>>
    /\ sb_pc = "loop"

\* one turn of the loop of score_candidates: score_candidate on the next
\* candidate; a request is made only for a candidate with a website
ScoreNext ==
    /\ sb_pc = "loop"
    /\ Len(sb_results) < Len(sb_candidates)
    /\ LET candidate == sb_candidates[Len(sb_results) + 1]
       IN  IF ~Truthy(Get(candidate, "website", None))
           THEN /\ sb_responses' = Append(sb_responses, <<>>)
                /\ sb_results' =
                       Append(sb_results,
                              score_candidate(self_embeddings, self_cooperatives,
                                              candidate, None, <<>>))
                /\ UNCHANGED sb_pc
           ELSE \E r \in Responses :
                  LET got == fetch_and_extract(r)
                  IN  /\ sb_responses' = Append(sb_responses, <<r>>)
                      /\ IF got.raised # ""
                         THEN /\ sb_pc' = "raised"
                              /\ UNCHANGED sb_results
                         ELSE /\ UNCHANGED sb_pc
                              /\ IF ~Truthy(got.content)
                                 THEN sb_results' =
                                        Append(sb_results,
                                               score_candidate(self_embeddings,
                                                   self_cooperatives, candidate,
                                                   got.content, <<>>))
                                 ELSE \E order \in ArgsortOutcomes(
                                         np_dot(self_embeddings,
                                            encode(create_embedding_text(
                                               candidate.name,
                                               Get(candidate, "location",
                                                   <<"I","o","w","a">>),
                                               got.content)))) :
                                        sb_results' =
                                          Append(sb_results,
                                                 score_candidate(self_embeddings,
                                                     self_cooperatives, candidate,
                                                     got.content, order))
    /\ UNCHANGED <<labeled_file, similarity_file, sos_file, site_vars, pc,
                   session_vars, runs, issued_ids, category_vars, search_vars,
                   normalize_vars, fetch_vars, roundtrip_vars, sb_candidates, sb_returned>>

\* after the loop: the sort and the return
ReturnResults ==
    /\ sb_pc = "loop"
    /\ Len(sb_results) = Len(sb_candidates)
    /\ sb_returned' = <<sort_by_score(sb_results)>>
    /\ sb_pc' = "returned"
    /\ UNCHANGED <<labeled_file, similarity_file, sos_file, site_vars, pc,
                   session_vars, runs, issued_ids, category_vars, search_vars,
                   normalize_vars, fetch_vars, roundtrip_vars, sb_candidates, sb_responses,
                   sb_results>>

NextBatch == ScoreNext \/ ReturnResults

SpecBatch == InitBatch /\ [][NextBatch]_vars

\* the loop runs on: nothing else is scheduled in the process
SpecBatchLive == SpecBatch /\ WF_vars(NextBatch)

(* Properties of a scoring batch *)

\* the request for candidate k was made and brought no content
fetch_failed(k) ==
    /\ sb_responses[k] # <<>>
    /\ \/ sb_responses[k][1].raised # ""
       \/ ~Truthy(sb_responses[k][1].text)

\* the request for candidate k was made and brought content
fetch_succeeded(k) ==
    /\ sb_responses[k] # <<>>
    /\ sb_responses[k][1].raised = ""
    /\ Truthy(sb_responses[k][1].text)

\* nothing was raised; every candidate the loop has passed has its result,
\* scored exactly when its own request brought content; the list returned
\* holds those results, each once
one_result_each ==
    /\ sb_pc # "raised"
    /\ Len(sb_results) = Len(sb_responses)
    /\ Len(sb_results) <= Len(sb_candidates)
    /\ \A k \in DOMAIN sb_results :
          /\ sb_results[k].name = sb_candidates[k].name
          /\ sb_results[k].content_extracted = fetch_succeeded(k)
    /\ sb_pc = "returned" =>
          /\ Len(sb_results) = Len(sb_candidates)
          /\ Len(sb_returned[1]) = Len(sb_candidates)
          /\ \A k \in DOMAIN sb_results :
                Cardinality({n \in DOMAIN sb_returned[1] :
                                sb_returned[1][n] = sb_results[k]})
                    = Cardinality({n \in DOMAIN sb_results :
                                      sb_results[n] = sb_results[k]})

\* C23: a failed request never ends a scoring batch; score_candidates
\* returns, with one result for every candidate, and the candidates after
\* a failed one are fetched and scored like the others
C23_FailuresNeverCrash ==
    /\ []one_result_each
    /\ <>(sb_pc = "returned")

\* a batch returned in which a request failed and a later one was scored
C23_Witness ==
    /\ sb_pc = "returned"
    /\ \E j, k \in DOMAIN sb_results :
          /\ j < k
          /\ fetch_failed(j)
          /\ sb_responses[j][1].raised # ""
          /\ sb_results[k].content_extracted

-----------------------------------------------------------------------------
(* Two runs on labeled_data.json at once: import_sos_cooperatives.py run   *)
(* while a review session waits at its prompt                              *)

\* main() of import_sos_cooperatives.py from its load to its save, while
\* verify_candidates.py holds the store it loaded earlier
ImportSosMeanwhile ==
    /\ pc = "prompt"
    /\ runs < MaxRuns
    /\ runs' = runs + 1
    /\ labeled_file' = IF labeled_file.verified_cooperatives = <<>>
                       THEN labeled_file
                       ELSE import_sos(labeled_file, sos_file)
    /\ issued_ids' = issued_ids \cup verified_ids(labeled_file')
    /\ UNCHANGED <<similarity_file, sos_file, site_vars, pc, session_vars,
                   function_vars>>

InitRace ==
    /\ labeled_file \in LabeledStores
    /\ similarity_file = SubSeq(RankedResults, 1, MaxResults)
    /\ sos_file \in {s \in SosLists : Len(s) = MaxSos}
    /\ index_html = [marker |-> TRUE, entries |-> site_entries(labeled_file)]
    /\ screenshots = {}
    /\ NoSession
    /\ runs = 0
    /\ issued_ids = verified_ids(labeled_file)
    /\ NoCall

NextRace == Verify \/ Review \/ ImportSosMeanwhile

SpecRace == InitRace /\ [][NextRace]_vars

(* Properties of two runs at once *)

\* the number of verified records the session at the prompt loaded
loaded_length == Len(labeled_data.verified_cooperatives) - verified_count

\* C24: when a review session saves after another run saved behind its
\* back, the file is what the session computed from its own load, the
\* records the other run appended are gone, and the n-th record either run
\* appended was given the same id
C24_LastWriterWins ==
    [][SessionEnds /\ labeled_file' # labeled_file =>
          LET on_disk == labeled_file.verified_cooperatives
              saved == labeled_file'.verified_cooperatives
          IN  /\ labeled_file' = labeled_data'
              /\ \A k \in DOMAIN on_disk :
                    k > loaded_length =>
                        /\ \A n \in DOMAIN saved : saved[n] # on_disk[k]
                        /\ k <= Len(saved) =>
                               /\ saved[k].source = "ml_pipeline"
                               /\ saved[k].id = on_disk[k].id]_vars

\* both runs have saved and an id that was on disk is in the file no more
C24_Witness ==
    /\ pc = "exited"
    /\ \E id \in issued_ids : id \notin verified_ids(labeled_file)

-----------------------------------------------------------------------------
(* import_sos_cooperatives.py on its own *)

\* entries of sos_candidates.json: those of SosPool and two whose names
\* differ from a verified name, or from another entry, in case and spaces
ImportPool ==
    SosPool
    \cup {sos_candidate(<<"B","E","E"," ">>, "CO-OP STOCK", "other"),
          sos_candidate(<<" ","e","n","t"," ","c","r","e","d","i","t"," ",
                          "u","n","i","o","n">>, "DOMESTIC NONPROFIT", "credit")}

ImportLists ==
    {s \in UNION {[1..n -> ImportPool] : n \in 0..MaxSos} :
        \A j, k \in DOMAIN s : j # k => s[j] # s[k]}

InitImport ==
    /\ labeled_file \in LabeledStores
    /\ similarity_file = <<>>
    /\ sos_file \in ImportLists
    /\ index_html = [marker |-> TRUE, entries |-> site_entries(labeled_file)]
    /\ screenshots = {}
    /\ NoSession
    /\ runs = 0
    /\ issued_ids = verified_ids(labeled_file)
    /\ NoCall

NextImport == ImportSos

SpecImport == InitImport /\ [][NextImport]_vars

(* Properties of the registry import *)

\* name.lower().strip()
import_key(name) == strip(lower(name))

\* C25: a run of import_sos_cooperatives.py appends a high-confidence
\* candidate exactly when its lower-cased, stripped name is that of no
\* verified record and of no earlier high-confidence candidate, in the
\* order of the file; the others are counted in skipped_dup, and added +
\* skipped_dup is the number of high-confidence candidates
C25_DuplicatesSkipped ==
    [][runs' = runs + 1 =>
          LET before == labeled_file.verified_cooperatives
              after == labeled_file'.verified_cooperatives
              high_conf == SelectSeq(sos_file, is_high_conf)
              names == {import_key(before[k].name) : k \in DOMAIN before}
              fresh(k) ==
                  /\ import_key(high_conf[k].name) \notin names
                  /\ \A j \in 1..(k - 1) :
                        import_key(high_conf[j].name)
                            # import_key(high_conf[k].name)
              is_fresh(k) == fresh(k)
              appended == SelectSeq([k \in DOMAIN high_conf |-> k], is_fresh)
              added == Len(after) - Len(before)
          IN  /\ SubSeq(after, 1, Len(before)) = before
              /\ added = Len(appended)
              /\ \A n \in DOMAIN appended :
                    after[Len(before) + n].name = high_conf[appended[n]].name
              /\ added + sos_skipped_dup(high_conf, names) = Len(high_conf)]_vars

\* a run skipped a candidate whose name, in other case and spaces, was
\* appended earlier in the same run, and one whose name was verified before
C25_Witness ==
    LET verified == labeled_file.verified_cooperatives
        high_conf == SelectSeq(sos_file, is_high_conf)
    IN  /\ runs = 1
        /\ Len(high_conf) = 2
        /\ verified[Len(verified)].source = "iowa_sos"
        /\ Cardinality({k \in DOMAIN verified :
                           import_key(verified[k].name)
                               = import_key(ENT_CREDIT_UNION)}) = 1
        /\ import_key(high_conf[1].name) = import_key(high_conf[2].name)

-----------------------------------------------------------------------------
(* save_json and load_json: json.dump(data, f, indent=2) and json.load(f) *)

\* Python values, tagged with their type; a str is its characters, a float
\* is given in tenths, a dict is its items in insertion order
PyNone == [t |-> "None", v |-> <<>>]
PyBool(b) == [t |-> "bool", v |-> b]
PyInt(n) == [t |-> "int", v |-> n]
PyFloat(tenths) == [t |-> "float", v |-> tenths]
PyStr(s) == [t |-> "str", v |-> s]
PyList(items) == [t |-> "list", v |-> items]
PyDict(items) == [t |-> "dict", v |-> items]
JSONDecodeError == [t |-> "JSONDecodeError", v |-> <<>>]

Digits == <<"0", "1", "2", "3", "4", "5", "6", "7", "8", "9">>

RECURSIVE int_repr(_)
int_repr(n) ==
    IF n < 10 THEN <<Digits[n + 1]>>
    ELSE int_repr(n \div 10) \o <<Digits[(n % 10) + 1]>>

\* float.__repr__ of a number of tenths: '0.9', '1.0'
float_repr(tenths) == int_repr(tenths \div 10) \o <<".">> \o int_repr(tenths % 10)

\* variant: the characters go between the quotes as they are
encode_string_unescaped(s) == <<"\"">> \o s \o <<"\"">>

\* the string encoder of json.dump: quote, backslash, newline and tab are
\* written as two characters
RECURSIVE escape(_)
escape(s) ==
    IF s = <<>> THEN <<>>
    ELSE LET c == Head(s)
         IN  (IF c = "\"" THEN <<"\\", "\"">>
              ELSE IF c = "\\" THEN <<"\\", "\\">>
              ELSE IF c = "\n" THEN <<"\\", "n">>
              ELSE IF c = "\t" THEN <<"\\", "t">>
              ELSE <<c>>) \o escape(Tail(s))

encode_string(s) == <<"\"">> \o escape(s) \o <<"\"">>

\* indent=2: a newline and two spaces for each level
RECURSIVE spaces(_)
spaces(n) == IF n = 0 THEN <<>> ELSE <<" ">> \o spaces(n - 1)

newline_indent(level) == <<"\n">> \o spaces(2 * level)

\* json.dump(data, f, indent=2): the characters written
RECURSIVE json_dump(_, _)
RECURSIVE dump_items(_, _, _)
RECURSIVE dump_members(_, _, _)
json_dump(value, level) ==
    IF value.t = "None" THEN <<"n", "u", "l", "l">>
    ELSE IF value.t = "bool"
    THEN (IF value.v THEN <<"t", "r", "u", "e">> ELSE <<"f", "a", "l", "s", "e">>)
    ELSE IF value.t = "int" THEN int_repr(value.v)
    ELSE IF value.t = "float" THEN float_repr(value.v)
    ELSE IF value.t = "str" THEN encode_string(value.v)
    ELSE IF value.t = "list"
    THEN (IF value.v = <<>> THEN <<"[", "]">>
          ELSE <<"[">> \o dump_items(value.v, 1, level + 1)
                   \o newline_indent(level) \o <<"]">>)
    ELSE (IF value.v = <<>> THEN <<"{", "}">>
          ELSE <<"{">> \o dump_members(value.v, 1, level + 1)
                   \o newline_indent(level) \o <<"}">>)

dump_items(items, k, level) ==
    IF k > Len(items) THEN <<>>
    ELSE newline_indent(level) \o json_dump(items[k], level)
            \o (IF k < Len(items) THEN <<",">> ELSE <<>>)
            \o dump_items(items, k + 1, level)

dump_members(items, k, level) ==
    IF k > Len(items) THEN <<>>
    ELSE newline_indent(level) \o encode_string(items[k][1]) \o <<":", " ">>
            \o json_dump(items[k][2], level)
            \o (IF k < Len(items) THEN <<",">> ELSE <<>>)
            \o dump_members(items, k + 1, level)

\* the character at pos, "" past the end
char_at(text, pos) == IF pos \in DOMAIN text THEN text[pos] ELSE ""

RECURSIVE skip_whitespace(_, _)
skip_whitespace(text, pos) ==
    IF char_at(text, pos) \in {" ", "\n", "\t", "\r"}
    THEN skip_whitespace(text, pos + 1) ELSE pos

IsDigit(c) == \E n \in DOMAIN Digits : Digits[n] = c

DigitValue(c) == (CHOOSE n \in DOMAIN Digits : Digits[n] = c) - 1

\* a run of digits from pos: its value and the position after it
RECURSIVE parse_digits(_, _, _)
parse_digits(text, pos, acc) ==
    IF IsDigit(char_at(text, pos))
    THEN parse_digits(text, pos + 1, 10 * acc + DigitValue(text[pos]))
    ELSE [v |-> acc, pos |-> pos]

\* a number without a point is an int, one with a point is a float
\* (float_repr writes one digit after the point)
parse_number(text, pos) ==
    LET whole == parse_digits(text, pos, 0)
    IN  IF char_at(text, whole.pos) = "."
        THEN IF IsDigit(char_at(text, whole.pos + 1))
             THEN [v |-> PyFloat(10 * whole.v
                                   + DigitValue(text[whole.pos + 1])),
                   pos |-> parse_digits(text, whole.pos + 1, 0).pos]
             ELSE [v |-> JSONDecodeError, pos |-> whole.pos]
        ELSE [v |-> PyInt(whole.v), pos |-> whole.pos]

\* the characters of a string from pos, after the opening quote
RECURSIVE parse_string(_, _, _)
parse_string(text, pos, acc) ==
    LET c == char_at(text, pos)
        e == char_at(text, pos + 1)
    IN  IF c = "" \/ c = "\n" THEN [v |-> JSONDecodeError, pos |-> pos]
        ELSE IF c = "\"" THEN [v |-> PyStr(acc), pos |-> pos + 1]
        ELSE IF c = "\\"
        THEN IF e \in {"\"", "\\", "/"}
             THEN parse_string(text, pos + 2, Append(acc, e))
             ELSE IF e = "n" THEN parse_string(text, pos + 2, Append(acc, "\n"))
             ELSE IF e = "t" THEN parse_string(text, pos + 2, Append(acc, "\t"))
             ELSE [v |-> JSONDecodeError, pos |-> pos]
        ELSE parse_string(text, pos + 1, Append(acc, c))

literal_at(text, pos, word) ==
    \A k \in DOMAIN word : char_at(text, pos + k - 1) = word[k]

\* json.load: the value that starts at pos and the position after it
RECURSIVE parse_value(_, _)
RECURSIVE parse_items(_, _, _)
RECURSIVE parse_members(_, _, _)
parse_value(text, pos) ==
    LET p == skip_whitespace(text, pos)
        c == char_at(text, p)
    IN  IF c = "{"
        THEN (IF char_at(text, skip_whitespace(text, p + 1)) = "}"
              THEN [v |-> PyDict(<<>>), pos |-> skip_whitespace(text, p + 1) + 1]
              ELSE parse_members(text, p + 1, <<>>))
        ELSE IF c = "["
        THEN (IF char_at(text, skip_whitespace(text, p + 1)) = "]"
              THEN [v |-> PyList(<<>>), pos |-> skip_whitespace(text, p + 1) + 1]
              ELSE parse_items(text, p + 1, <<>>))
        ELSE IF c = "\"" THEN parse_string(text, p + 1, <<>>)
        ELSE IF literal_at(text, p, <<"n", "u", "l", "l">>)
        THEN [v |-> PyNone, pos |-> p + 4]
        ELSE IF literal_at(text, p, <<"t", "r", "u", "e">>)
        THEN [v |-> PyBool(TRUE), pos |-> p + 4]
        ELSE IF literal_at(text, p, <<"f", "a", "l", "s", "e">>)
        THEN [v |-> PyBool(FALSE), pos |-> p + 5]
        ELSE IF IsDigit(c) THEN parse_number(text, p)
        ELSE [v |-> JSONDecodeError, pos |-> p]

parse_items(text, pos, acc) ==
    LET item == parse_value(text, pos)
        q == skip_whitespace(text, item.pos)
    IN  IF item.v.t = "JSONDecodeError" THEN item
        ELSE IF char_at(text, q) = ","
        THEN parse_items(text, q + 1, Append(acc, item.v))
        ELSE IF char_at(text, q) = "]"
        THEN [v |-> PyList(Append(acc, item.v)), pos |-> q + 1]
        ELSE [v |-> JSONDecodeError, pos |-> q]

parse_members(text, pos, acc) ==
    LET p == skip_whitespace(text, pos)
        key == IF char_at(text, p) = "\"" THEN parse_string(text, p + 1, <<>>)
               ELSE [v |-> JSONDecodeError, pos |-> p]
        colon == skip_whitespace(text, key.pos)
        item == IF key.v.t = "JSONDecodeError" \/ char_at(text, colon) # ":"
                THEN [v |-> JSONDecodeError, pos |-> colon]
                ELSE parse_value(text, colon + 1)
        q == skip_whitespace(text, item.pos)
    IN  IF item.v.t = "JSONDecodeError" THEN item
        ELSE IF char_at(text, q) = ","
        THEN parse_members(text, q + 1, Append(acc, <<key.v.v, item.v>>))
        ELSE IF char_at(text, q) = "}"
        THEN [v |-> PyDict(Append(acc, <<key.v.v, item.v>>)), pos |-> q + 1]
        ELSE [v |-> JSONDecodeError, pos |-> q]

\* json.load(f): one value and nothing after it
json_load(text) ==
    LET value == parse_value(text, 1)
    IN  IF value.v.t # "JSONDecodeError"
           /\ skip_whitespace(text, value.pos) = Len(text) + 1
        THEN value.v ELSE JSONDecodeError

(* The labeled-data objects as Python values *)

\* a string the model keeps whole
py_word(w) == IF w = "None" THEN PyNone ELSE PyStr(<<w>>)

py_text(s) == IF s = None THEN PyNone ELSE PyStr(s)

\* the keys of the dicts in labeled_data.json, each with the type of its value
RecordKeys ==
    <<"id", "name", "category", "website", "location", "verified_date",
      "rejected_date", "source", "similarity_score", "reason", "corp_type",
      "corp_number", "exported_to_website", "export_date", "timestamp",
      "verified", "rejected", "precision", "cumulative_verified",
      "cumulative_reviewed", "last_updated">>

py_field(key, value) ==
    IF key \in {"id", "verified", "rejected", "cumulative_verified",
                "cumulative_reviewed"} THEN PyInt(value)
    ELSE IF key \in {"name", "website", "location"} THEN py_text(value)
    ELSE IF key = "similarity_score" THEN PyFloat(value)
    ELSE IF key = "precision" THEN PyFloat((10 * value[1]) \div value[2])
    ELSE IF key = "exported_to_website" THEN PyBool(value)
    ELSE py_word(value)

py_record(r) ==
    LET present(key) == key \in DOMAIN r
        keys == SelectSeq(RecordKeys, present)
    IN  PyDict([k \in DOMAIN keys |-> <<<<keys[k]>>, py_field(keys[k], r[keys[k]])>>])

py_records(s) == PyList([k \in DOMAIN s |-> py_record(s[k])])

\* labeled_data as main() holds it
py_labeled_data(ld) ==
    PyDict(<<
        <<<<"verified_cooperatives">>, py_records(ld.verified_cooperatives)>>,
        <<<<"rejected_candidates">>, py_records(ld.rejected_candidates)>>,
        <<<<"stats">>,
          PyDict(<<
            <<<<"total_verified">>, PyInt(ld.stats.total_verified)>>,
            <<<<"total_rejected">>, PyInt(ld.stats.total_rejected)>>,
            <<<<"total_reviewed">>, PyInt(ld.stats.total_reviewed)>>,
            <<<<"precision_history">>, py_records(ld.stats.precision_history)>> >>)>>,
        <<<<"metadata">>, py_record(ld.metadata)>> >>)

\* a store with a name that holds a quote, a backslash and a tab
QuotedStore ==
    store(<<original(7, <<"T","h","e"," ","\"","C","o","-","o","p","\""," ","\\","\t","1">>,
                     "grocery", <<>>, "manual"),
            original(3, <<"B","e","e">>, "electric", URL_B, "iaec")>>,
          <<>>)

\* the objects the scripts hand to save_json: the stores after a review
\* session, after an import, after a publishing run
RoundTripStores ==
    LET base == PublishStores \cup {QuotedStore}
    IN  base
        \cup {import_sos(ld, s) : ld \in base, s \in ImportLists}
        \cup {[ld EXCEPT !.verified_cooperatives = mark_exported(@, {URL_B, URL_D})] :
                 ld \in base}
        \cup {update_stats(ld, v_count, r_count) :
                 ld \in base, v_count \in 0..1, r_count \in 0..1}

InitRoundTrip ==
    /\ NoRun
    /\ dc_candidate = [name |-> <<>>]
    /\ dc_result = ""
    /\ NoSearch
    /\ NoNormalize
    /\ NoFetch
    /\ NoBatch
    /\ rt_data \in {py_labeled_data(ld) : ld \in RoundTripStores}
    /\ rt_file = <<>>
    /\ rt_loaded = <<>>
    /\ rt_pc = "start"

\* save_json(data, path)
SaveJson ==
    /\ rt_pc = "start"
    /\ rt_file' = json_dump(rt_data, 0)
    /\ rt_pc' = "saved"
    /\ UNCHANGED <<labeled_file, similarity_file, sos_file, site_vars, pc,
                   session_vars, runs, issued_ids, category_vars, search_vars,
                   normalize_vars, fetch_vars, batch_vars, rt_data, rt_loaded>>

\* load_json(path)
LoadJson ==
    /\ rt_pc = "saved"
    /\ rt_loaded' = json_load(rt_file)
    /\ rt_pc' = "loaded"
    /\ UNCHANGED <<labeled_file, similarity_file, sos_file, site_vars, pc,
                   session_vars, runs, issued_ids, category_vars, search_vars,
                   normalize_vars, fetch_vars, batch_vars, rt_data, rt_file>>

NextRoundTrip == SaveJson \/ LoadJson

SpecRoundTrip == InitRoundTrip /\ [][NextRoundTrip]_vars

(* Properties of the round trip *)

\* the value of a key of a dict
py_get(dict, key) ==
    dict.v[CHOOSE k \in DOMAIN dict.v : dict.v[k][1] = <<key>>][2]

\* C26: load_json(save_json(d)) equals d in every field, and
\* verified_cooperatives comes back in the same order
C26_RoundTrip ==
    rt_pc = "loaded" =>
        /\ rt_loaded = rt_data
        /\ LET before == py_get(rt_data, "verified_cooperatives").v
               after == py_get(rt_loaded, "verified_cooperatives").v
           IN  /\ Len(after) = Len(before)
               /\ \A k \in DOMAIN before : after[k] = before[k]

\* a store of several records, one with a quote in its name, was written
\* and read back
C26_Witness ==
    /\ rt_pc = "loaded"
    /\ LET verified == py_get(rt_data, "verified_cooperatives").v
       IN  /\ Len(verified) >= 2
           /\ \E k \in DOMAIN py_get(verified[1], "name").v :
                 py_get(verified[1], "name").v[k] = "\""

-----------------------------------------------------------------------------
(* Properties of the two outcomes of a review *)

\* C27 as stated: from a store in which no website is both verified and
\* rejected, after any review sessions no website occurs both in
\* verified_cooperatives and in rejected_candidates.
C27_VerifiedRejectedExclusive ==
    verified_websites(labeled_file) \cap rejected_websites(labeled_file) = {}


(* Properties of what a publishing run writes to the store *)

\* C28 as stated: a batch_import run changes in labeled_data.json only
\* exported_to_website and export_date of the records it published and
\* metadata.last_updated; every other field of every verified record, its
\* id, name, category and website among them, is the same after the run.
C28_BatchImportFrame ==
    [][Export =>
          LET before == labeled_file.verified_cooperatives
              after == labeled_file'.verified_cooperatives
          IN  /\ Len(after) = Len(before)
              /\ \A k \in DOMAIN before :
                    /\ DOMAIN after[k] \subseteq
                           DOMAIN before[k] \cup RewrittenFields
                    /\ \A key \in DOMAIN before[k] \ {"exported_to_website",
                                                      "export_date"} :
                           key \in DOMAIN after[k]
                               /\ after[k][key] = before[k][key]
                    /\ after[k] # before[k] =>
                           /\ "exported_to_website" \in DOMAIN after[k]
                           /\ after[k].exported_to_website
              /\ labeled_file'.rejected_candidates
                     = labeled_file.rejected_candidates
              /\ labeled_file'.stats = labeled_file.stats]_vars


(* Properties of the q and o commands *)

\* the positions of the prompts of this session answered with `choice`
answered(choice) == {n \in DOMAIN decisions : decisions[n].choice = choice}

\* the records of `list` after the first `loaded` ones are the candidates
\* shown at the prompts `prompts`, in that order
holds_candidates(list, loaded, prompts) ==
    /\ Len(list) = loaded + Cardinality(prompts)
    /\ \A n \in prompts :
          LET k == loaded + Cardinality({m \in prompts : m <= n})
          IN  /\ list[k].name = shown[n].name
              /\ list[k].website = shown[n].website

\* C29: at q the session ends: no further candidate is shown, the candidate
\* on display goes to neither list, and the accepts and rejects made
\* earlier in the session are saved with the statistics update; at o the
\* store is unchanged and the same candidate stays at the prompt
C29_QuitAndOpen ==
    [][/\ (pc = "prompt" /\ decision' = "q") =>
             /\ pc' = "exited"
             /\ shown' = shown
             /\ i' = i
             /\ holds_candidates(labeled_file'.verified_cooperatives,
                                 Len(labeled_file.verified_cooperatives),
                                 answered("y"))
             /\ holds_candidates(labeled_file'.rejected_candidates,
                                 Len(labeled_file.rejected_candidates),
                                 answered("n"))
             /\ SubSeq(labeled_file'.verified_cooperatives, 1,
                       Len(labeled_file.verified_cooperatives))
                    = labeled_file.verified_cooperatives
             /\ SubSeq(labeled_file'.rejected_candidates, 1,
                       Len(labeled_file.rejected_candidates))
                    = labeled_file.rejected_candidates
             /\ labeled_file'.stats.total_verified
                    = Len(labeled_file'.verified_cooperatives)
             /\ labeled_file'.stats.total_rejected
                    = Len(labeled_file'.rejected_candidates)
             /\ labeled_file'.stats.total_reviewed
                    = labeled_file.stats.total_reviewed
                          + Cardinality(answered("y") \cup answered("n"))
       /\ (pc = "prompt" /\ decision' = "o") =>
             /\ labeled_file' = labeled_file
             /\ labeled_data' = labeled_data
             /\ pc' = "prompt"
             /\ i' = i
             /\ shown' = shown
             /\ <<verified_count', rejected_count', skipped_count'>>
                    = <<verified_count, rejected_count, skipped_count>>]_vars

\* a session was ended with q after an accept, and the website of a
\* candidate had been opened before it was decided on
C29_Witness ==
    /\ pc = "exited"
    /\ decision = "q"
    /\ Len(decisions) = 2
    /\ decisions[1].choice = "y"
    /\ shown[1].website \in opened
    /\ Len(shown) = 2
    /\ labeled_file = labeled_data
    /\ labeled_file.verified_cooperatives[Len(labeled_file.verified_cooperatives)].source
           = "ml_pipeline"


(* Properties of the websites on the page *)

\* the website of an entry as the page shows it, lower-cased and without
\* trailing slashes
entry_website(entry) ==
    rstrip_slash(lower(IF entry.website = None THEN <<"N","o","n","e">>
                       ELSE entry.website))

distinct_websites(html) ==
    \A j, k \in DOMAIN html.entries :
        j # k => entry_website(html.entries[j]) # entry_website(html.entries[k])

\* C30 as stated: when the entries of the array in index.html have pairwise
\* distinct normalized websites, they still have after a run of
\* batch_import_all, whatever verified_with_websites.json holds.
C30_NoWebsiteTwice ==
    [][\/ index_html' = index_html
       \/ ~distinct_websites(index_html)
       \/ distinct_websites(index_html')
       \/ ~ExportAll]_vars

====
